---- MODULE Spec2Model ----
(***************************************************************************)
(* A model of the siemens-gateway tag subsystem:                           *)
(*   gateway/plc/tags_manager.py  DBPLCTag, DBPLCTagManager                *)
(*   gateway/plc/monitor.py       VariableMonitor                          *)
(*   gateway/plc/client.py        PLCClient (readDB_Byte, writeDB_Byte,    *)
(*                                writeDB_Bit)                             *)
(*   gateway/plc_api/app/routes/plc.py  internal_write_tags                *)
(*   gateway/__init__.py          load_tags_conf                           *)
(*                                                                         *)
(* Python values are pairs <<type, payload>> so that values of different   *)
(* Python types can be compared; PyEq is Python's ==.                      *)
(***************************************************************************)
EXTENDS Integers, Sequences, FiniteSets, TLC

VARIABLES
    tags,        \* DBPLCTagManager.tags: the tag paths in registration (dict) order
    decl,        \* DBPLCTagManager.tags: tag path -> declaration
    plc,         \* the PLC's data blocks: db -> [offset -> byte]
    value,       \* DBPLCTag._value per tag
    pending,     \* DBPLCTag._pending_write_value per tag
    monValue,    \* VariableMonitor._value per tag
    queue,       \* VariableMonitor._event_queue per tag
    pc,          \* position of each thread
    fl,          \* locals of write_pending_tags per thread
    wi,          \* locals of write_tag(immediate=True) / writeDB_Bit per thread
    lastWritten, \* history: per tag, the value encoded by the last successful db_write for it
    late,        \* history: per flushing thread, values staged by others during its flush
    lastIO,      \* history: per thread, the last read-modify-write it completed
    sw,          \* locals of read_all_tags (the sweep) and the reads it has issued
    mon,         \* the monitored tag: its setters, consumer thread and history
    st,          \* read_tag / write_tag(immediate=True) calls: locals and outcomes
    sess,        \* the PLCClient sessions: client, connected, locks, supervisors
    api,         \* the HTTP requests being served and what they caused
    budget,      \* remaining operations of each kind (bounds the exploration)
    mode         \* which threads run side by side: "seq", "stage" or "conc"

vars == <<tags, decl, plc, value, pending, monValue, queue, pc, fl, wi,
          lastWritten, late, lastIO, sw, mon, st, sess, api, budget, mode>>

-----------------------------------------------------------------------------
(* Bounds of the exploration *)
MaxStage == 2
MaxFlush == 2
MaxImm == 1

-----------------------------------------------------------------------------
(* Python values *)
None == <<"none", 0>>
PyBool(b) == <<"bool", IF b THEN 1 ELSE 0>>
PyInt(n) == <<"int", n>>
PyStr(bs) == <<"str", bs>>        \* a str, by its GBK bytes
PyBytes(bs) == <<"bytes", bs>>
PyReal(bits) == <<"real", bits>>  \* a float, by the bits of its IEEE-754 encoding
PyText(cs) == <<"text", cs>>      \* a str, by its characters

\* characters: two ASCII letters, a Chinese character (two bytes in GBK) and one
\* that GBK cannot encode
Chars == {"A", "B", "Zh", "Emoji"}

\* str.encode('gbk') of one character (<<>>: UnicodeEncodeError)
GbkOf(c) ==
    CASE c = "A" -> <<65>>
      [] c = "B" -> <<66>>
      [] c = "Zh" -> <<214, 208>>
      [] OTHER -> <<>>

RECURSIVE gbk_encode(_)
gbk_encode(cs) == IF cs = <<>> THEN <<>> ELSE GbkOf(Head(cs)) \o gbk_encode(Tail(cs))

\* bytes.decode('gbk') of valid GBK bytes, character by character; a character
\* outside Chars is kept by its bytes
RECURSIVE gbk_decode(_)
gbk_decode(bs) ==
    IF bs = <<>> THEN <<>>
    ELSE IF bs[1] < 128
    THEN <<CASE bs[1] = 65 -> "A" [] bs[1] = 66 -> "B" [] OTHER -> "Other">>
             \o gbk_decode(Tail(bs))
    ELSE IF Len(bs) < 2 THEN <<"Invalid">>
    ELSE <<IF bs[1] = 214 /\ bs[2] = 208 THEN "Zh" ELSE "Other">>
             \o gbk_decode(Tail(Tail(bs)))

\* bytes.decode("GBK") succeeds: single bytes below 0x80, or a lead byte 0x81..0xFE
\* followed by a trail byte 0x40..0xFE other than 0x7F
RECURSIVE GbkValid(_)
GbkValid(bs) ==
    IF bs = <<>> THEN TRUE
    ELSE IF bs[1] < 128 THEN GbkValid(Tail(bs))
    ELSE /\ bs[1] \in 129..254
         /\ Len(bs) >= 2
         /\ bs[2] \in (64..254) \ {127}
         /\ GbkValid(Tail(Tail(bs)))

\* value.encode('gbk') does not raise UnicodeEncodeError
StrEncodable(v) ==
    v[1] = "str" \/ (v[1] = "text" /\ \A i \in 1..Len(v[2]) : GbkOf(v[2][i]) # <<>>)

\* the bytes value.encode('gbk') returns
StrBytes(v) == IF v[1] = "str" THEN v[2] ELSE gbk_encode(v[2])

\* the characters of a str value
StrChars(v) == IF v[1] = "str" THEN gbk_decode(v[2]) ELSE v[2]

\* write_pending_tags lines 552-565: string_bytes cut to max_content_length bytes,
\* dropping half a character at the end
TruncateGbk(sb, size) ==
    IF Len(sb) <= size THEN sb
    ELSE LET truncated_bytes == SubSeq(sb, 1, size)
         IN  IF GbkValid(truncated_bytes) THEN truncated_bytes
             ELSE SubSeq(truncated_bytes, 1, Len(truncated_bytes) - 1)

\* truncated_bytes[:-1].decode raises as well
TruncateRaises(sb, size) ==
    /\ Len(sb) > size
    /\ ~GbkValid(SubSeq(sb, 1, size))
    /\ ~GbkValid(SubSeq(sb, 1, size - 1))

\* a buffer without the two header bytes
StringBufferBare(size, sb) == sb \o [i \in 1..(size - Len(sb)) |-> 0]

\* lines 567-579: bytearray(size + 2) with header (size, len), the bytes and zeros
StringBuffer(size, sb) == <<size, Len(sb)>> \o sb \o [i \in 1..(size - Len(sb)) |-> 0]

\* line 582: modified_data[rel : rel + len(buffer)] = buffer, inside the data
PatchBytes(data, rel, buffer) ==
    [j \in DOMAIN data |->
        IF j - rel + 1 \in 1..Len(buffer) THEN buffer[j - rel + 1] ELSE data[j]]

IsNone(v) == v[1] = "none"
IsBool(v) == v[1] = "bool"
IsNum(v) == v[1] \in {"bool", "int"}

\* Python's ==: bool is a subclass of int, so False == 0 and True == 1
PyEq(a, b) == IF IsNum(a) /\ IsNum(b) THEN a[2] = b[2] ELSE a = b

\* Python truthiness (if value:)
Truthy(v) ==
    CASE v[1] = "none" -> FALSE
      [] v[1] \in {"bool", "int"} -> v[2] # 0
      [] OTHER -> TRUE

-----------------------------------------------------------------------------
(* Bytes and bits *)
Byte == 0..255

Pow2(k) == CASE k = 0 -> 1 [] k = 1 -> 2 [] k = 2 -> 4 [] k = 3 -> 8
             [] k = 4 -> 16 [] k = 5 -> 32 [] k = 6 -> 64 [] k = 7 -> 128

BitOf(b, k) == (b \div Pow2(k)) % 2

RECURSIVE OrBits(_, _, _)
OrBits(a, b, k) ==
    IF k > 7 THEN 0
    ELSE (IF BitOf(a, k) = 1 \/ BitOf(b, k) = 1 THEN Pow2(k) ELSE 0) + OrBits(a, b, k + 1)

RECURSIVE AndBits(_, _, _)
AndBits(a, b, k) ==
    IF k > 7 THEN 0
    ELSE (IF BitOf(a, k) = 1 /\ BitOf(b, k) = 1 THEN Pow2(k) ELSE 0) + AndBits(a, b, k + 1)

RECURSIVE XorBits(_, _, _)
XorBits(a, b, k) ==
    IF k > 7 THEN 0
    ELSE (IF BitOf(a, k) # BitOf(b, k) THEN Pow2(k) ELSE 0) + XorBits(a, b, k + 1)

\* data[byte_offset] |= (1 << bit_index)  /  data[byte_offset] &= ~(1 << bit_index)
\* a write of the bit's mask over the whole byte
set_bool_whole_byte(data, byte_offset, bit_index, v) ==
    [data EXCEPT ![byte_offset] = IF Truthy(v) THEN Pow2(bit_index) ELSE 0]

set_bool_in_bytearray(data, byte_offset, bit_index, v) ==
    IF Truthy(v)
    THEN [data EXCEPT ![byte_offset] = OrBits(@, Pow2(bit_index), 0)]
    ELSE [data EXCEPT ![byte_offset] = AndBits(@, 255 - Pow2(bit_index), 0)]

\* snap7.util.get_bool(data, 0, bit_index)
get_bool(b, bit_index) == PyBool(AndBits(b, Pow2(bit_index), 0) = Pow2(bit_index))

\* snap7.util.set_bool as called by writeDB_Bit: no change when the bit already has
\* the value, else |= mask (set) or ^= mask (clear)
util_set_bool(b, bit_index, v) ==
    IF get_bool(b, bit_index) = PyBool(Truthy(v)) THEN b
    ELSE IF Truthy(v) THEN OrBits(b, Pow2(bit_index), 0)
    ELSE XorBits(b, Pow2(bit_index), 0)

\* snap7.util.set_int: struct.pack('>h', int(value)); raises for a value int() rejects
\* or outside the signed 16-bit range
IntEncodable(v) == IsNum(v) /\ v[2] >= -32768 /\ v[2] <= 32767

set_int(data, off, v) ==
    LET u == v[2] % 65536
    IN  [data EXCEPT ![off] = u \div 256, ![off + 1] = u % 256]

\* snap7.util.get_int: big-endian signed 16-bit
get_int(hi, lo) ==
    LET u == hi * 256 + lo
    IN  PyInt(IF u >= 32768 THEN u - 65536 ELSE u)

-----------------------------------------------------------------------------
(* The tag registry of the flush scenarios: two bool tags sharing byte 0 of   *)
(* DB 1, an int tag behind them, and a bool tag in DB 2                        *)
FlushTags == <<"b0", "b1", "n1", "c0">>
Paths == {"b0", "b1", "n1", "c0"}

FlushDecl ==
    [p \in Paths |->
        CASE p = "b0" -> [db |-> 1, off |-> 0, size |-> 1, type |-> "bool", bit |-> 0]
          [] p = "b1" -> [db |-> 1, off |-> 0, size |-> 1, type |-> "bool", bit |-> 1]
          [] p = "n1" -> [db |-> 1, off |-> 1, size |-> 2, type |-> "int", bit |-> 0]
          [] p = "c0" -> [db |-> 2, off |-> 0, size |-> 1, type |-> "bool", bit |-> 0]]

DBs == {1, 2}
DBLen(db) == IF db = 1 THEN 3 ELSE 1

\* values a caller may pass for a tag (the API forwards any JSON value unchecked)
StageValues(p) ==
    CASE p = "c0" -> {PyBool(TRUE)}
      [] decl[p].type = "bool" -> {PyBool(TRUE), PyBool(FALSE)}
      [] decl[p].type = "string" ->
           {PyText(<<"A">>), PyText(<<"Zh">>), PyText(<<"B", "Zh">>),
            PyText(<<"Emoji">>), PyInt(7)}
      [] OTHER -> {PyInt(258), PyStr(<<120>>)}

-----------------------------------------------------------------------------
(* Helpers of DBPLCTagManager *)
SeqToSet(s) == {s[i] : i \in 1..Len(s)}
MinOf(S) == CHOOSE x \in S : \A y \in S : x <= y
MaxOf(S) == CHOOSE x \in S : \A y \in S : x >= y

\* tag.start_offset + tag.size - 1, or + tag.size + 1 for a string
\* an end offset that leaves out the header of a string
EndOffsetNoHeader(d) == d.off + d.size - 1

EndOffset(d) == IF d.type # "string" THEN d.off + d.size - 1 ELSE d.off + d.size + 1

\* _calculate_read_range(tags): <<start_offset, end_offset>>
calculate_read_range(ts) ==
    <<MinOf({decl[ts[i]].off : i \in 1..Len(ts)}),
      MaxOf({EndOffset(decl[ts[i]]) : i \in 1..Len(ts)})>>

\* _calculate_write_range(tags)
calculate_write_range(ts) == calculate_read_range(ts)

\* _group_tags_by_db(tags): the data blocks in order of first appearance ...
RECURSIVE GroupKeys(_)
GroupKeys(ts) ==
    IF ts = <<>> THEN <<>>
    ELSE LET d == decl[Head(ts)].db
         IN  <<d>> \o SelectSeq(GroupKeys(Tail(ts)), LAMBDA e : e # d)

\* ... and the tags of one data block, in the order given
GroupOf(ts, db) == SelectSeq(ts, LAMBDA p : decl[p].db = db)

\* a test that finds every tag pending
pending_always(p) == TRUE

\* tag.has_pending_write()
has_pending_write(p) == ~IsNone(pending[p])

\* the bytes of a data block the PLC returns for db_read(db, start, size)
DbRead(db, start, size) == [j \in 0..(size - 1) |-> plc[db][start + j]]

\* the data block after db_write(db, start, data)
DbWrite(db, start, data) ==
    [plc EXCEPT ![db] = [o \in DOMAIN plc[db] |->
        IF o - start \in DOMAIN data THEN data[o - start] ELSE plc[db][o]]]

\* decoding of a tag from the PLC's memory (get_bool / get_int)
DecodeTag(mem, p) ==
    LET d == decl[p]
    IN  IF d.type = "bool" THEN get_bool(mem[d.db][d.off], d.bit)
        ELSE get_int(mem[d.db][d.off], mem[d.db][d.off + 1])

\* the outcomes of one call of a PLCClient I/O operation: success, or one of the
\* failure returns (wait_for_connection timed out, client_lock.acquire timed out,
\* the S7 library raised)
IOOutcomes == {"ok", "not_connected", "lock_timeout", "s7_error"}

\* a read that hands back data whatever happened
readDB_Byte_unchecked(out, db, start, size) == <<TRUE, DbRead(db, start, size)>>

\* readDB_Byte: <<result, data>>
readDB_Byte(out, db, start, size) ==
    IF out = "ok" THEN <<TRUE, DbRead(db, start, size)>> ELSE <<FALSE, None>>

\* writeDB_Byte returns True, or the pair (False, None) without raising
writeDB_Byte(out) == IF out = "ok" THEN <<TRUE>> ELSE <<FALSE, None>>

-----------------------------------------------------------------------------
(* DBPLCTag.value (setter) -> VariableMonitor.value (setter) -> _detect_change *)
CHANGE == "change"
RISING == "rising"
FALLING == "falling"
BOTH == "both"

Event(kind, old, new) == [kind |-> kind, old |-> old, new |-> new]

\* a queue entry: the event and (history) the number of the assignment that made it
Entry(e, n) == [kind |-> e.kind, old |-> e.old, new |-> e.new, src |-> n]
Entries(es, n) == [i \in 1..Len(es) |-> Entry(es[i], n)]

\* the events _detect_change(old_value, new_value) puts on the queue, in order
detect_change(old, new) ==
    <<Event(CHANGE, old, new)>> \o
    (IF IsBool(old) /\ IsBool(new)
     THEN IF old = PyBool(FALSE) /\ new = PyBool(TRUE)
          THEN <<Event(RISING, old, new), Event(BOTH, old, new)>>
          ELSE IF old = PyBool(TRUE) /\ new = PyBool(FALSE)
          THEN <<Event(FALLING, old, new), Event(BOTH, old, new)>>
          ELSE <<>>
     ELSE <<>>)

\* a setter that reports every assignment
monitor_set_always(old, new) == detect_change(old, new)

\* VariableMonitor.value (setter): the events one assignment enqueues
monitor_set(old, new) == IF ~PyEq(old, new) THEN detect_change(old, new) ELSE <<>>

\* tag.value = v, as one step of a thread that is the only one assigning to the tag
TagAssign(p, v) ==
    /\ value' = [value EXCEPT ![p] = v]
    /\ monValue' = [monValue EXCEPT ![p] = v]
    /\ queue' = [queue EXCEPT ![p] = @ \o Entries(monitor_set(monValue[p], v), 0)]

-----------------------------------------------------------------------------
(* Threads *)
Flushers == {"f1", "f2"}     \* API request threads: internal_write_tags
Writers == {"w"}             \* a caller of write_tag(immediate=True)
Threads == Flushers \cup Writers
Sweepers == {"r"}            \* the scheduler's read_all_tags job
AllThreads == Threads \cup Sweepers

NoData == [j \in {} |-> 0]

\* groups, reads, results: locals of read_all_tags and the reads issued; history:
\* the data blocks whose read failed, the tags whose decoding failed, and every
\* tag's current value and monitor queue when the sweep began
SwIdle == [groups |-> <<>>, reads |-> <<>>, results |-> <<>>,
           failedReads |-> {}, decodeFailed |-> {}, prev |-> <<>>, prevq |-> <<>>]

\* the threads that assign tag.value: the read sweep and a write_tag(immediate=True)
Setters == Sweepers \cup Writers
NoAsg == [v |-> None, id |-> 0, evs |-> <<>>]
\* running, thread: the monitor's _running flag and its consumer thread ("none"
\* when start_consumer was not called); stopper: where a stop_consumer() call is;
\* owed: the entries that were in the queue when stop_consumer() was called
\* cell: the default_value column of the tag's row; lock: holder of the tag's
\* _value_lock; cur: each setter's assignment in progress; delivered: the handler
\* calls made by the consumer thread; hist, completed, pred: history of the
\* assignments (in monitor order, finished, and finished before each one began)
MonIdle == [cell |-> <<"NULL", 0>>, lock |-> "none", cur |-> [t \in Setters |-> NoAsg],
            delivered |-> <<>>, hist |-> <<>>, completed |-> {}, pred |-> <<>>,
            running |-> TRUE, thread |-> "alive", stopper |-> "none", owed |-> <<>>]

\* no single-tag call made yet
StIdle == [op |-> [t \in Threads |-> "none"], out |-> [t \in Threads |-> "none"],
           v |-> [t \in Threads |-> None], path |-> [t \in Threads |-> "none"],
           calls |-> 0, last |-> "none"]

\* the two PLCClient instances of the tag manager: _plc_client_sync, _plc_client_async
Sessions == {"sync", "async"}
\* the thread that runs a session's constructor and then its monitor_task
SupOf(s) == IF s = "sync" THEN "m_sync" ELSE "m_async"
\* callers of the sessions' I/O operations: "w" writes through the sync session,
\* "r" (the sweep) reads through the async session
IoThreads == {"w", "r"}
SessOf(t) == IF t = "r" THEN "async" ELSE "sync"

\* reachable: the PLC answers on the network; client: per session, self.client
\* ("none" = None, "open" = a snap7 client with a live connection, "broken" = a
\* client whose connection failed or was lost); connected: self.connected;
\* client_lock: holder of the instance lock; connect_lock: holder of the class-level
\* PLCClient.connect_lock; sup: position of each session's constructor / monitor
\* thread ("off": not running); io, res: position and last return of each caller of
\* an I/O operation; lost: a probe found a session that was connected to be down;
\* mon: monitor_task has been started; stop: self.stop_monitor; shut: position of the
\* thread that shuts the session down; hb: the heartbeat thread (position, the bit
\* it read, and for its current writeDB_NegateBit call whether the read succeeded,
\* the writeDB_Bit calls made and their result, and what the call returned)
\* the locks of the program: the tag manager's _lock ("registry"), a tag's
\* _value_lock ("tag"), its monitor's _lock ("monitor"), the two sessions'
\* client_lock and the class-level connect_lock
Locks == {"registry", "tag", "monitor", "client_sync", "client_async", "connect"}
\* the threads whose locking is followed: the sweep job, a write_tag(immediate=True)
\* caller, an API write request, the sync session's monitor_task, and create_tag
LockThreads == {"r", "w", "f1", "m_sync", "reg"}
\* at: each thread's position in its lock program; holder: who holds each lock
LkIdle == [at |-> [t \in LockThreads |-> 1], holder |-> [l \in Locks |-> "none"]]

\* a wait_for_connection call: its timeout argument, the number of time.sleep(1)
\* it has made, and what it returned
WfcIdle == [timeout |-> 0, sleeps |-> 0, ret |-> "none"]

HbIdle == [pc |-> "off", bit |-> None, rd |-> "none", wr |-> <<>>, ret |-> "none"]

SessIdle == [reachable |-> TRUE,
             client |-> [s \in Sessions |-> "none"],
             connected |-> [s \in Sessions |-> FALSE],
             client_lock |-> [s \in Sessions |-> "none"],
             connect_lock |-> "none",
             sup |-> [s \in Sessions |-> "off"],
             io |-> [t \in IoThreads |-> "idle"],
             res |-> [t \in IoThreads |-> "none"],
             lost |-> FALSE,
             mon |-> [s \in Sessions |-> FALSE],
             stop |-> [s \in Sessions |-> FALSE],
             shut |-> [s \in Sessions |-> "none"],
             hb |-> HbIdle,
             wfc |-> WfcIdle,
             lk |-> LkIdle]

\* n: requests served; who, kind: the last request's thread and endpoint; unknown,
\* size: whether it named an unregistered path and how many operations it held;
\* code: the HTTP status answered (0 while internal_write_tags is still running)
ApiIdle == [n |-> 0, who |-> "none", kind |-> "none", unknown |-> FALSE, size |-> 0,
            code |-> 0]

\* a local variable that has not been assigned
Unbound == <<-1>>

\* sb: the local string_bytes of write_pending_tags, which lives across tags and
\* data blocks of one call
FlIdle ==
    [groups |-> <<>>, grp |-> <<>>, db |-> 0, start |-> 0, data |-> NoData,
     orig |-> NoData, i |-> 0, sb |-> Unbound,
     results |-> [p \in Paths |-> "unset"],
     pre |-> [p \in Paths |-> None],
     enc |-> [p \in Paths |-> None],
     wr |-> [d \in DBs |-> "none"]]

WiIdle == [path |-> "b0", val |-> None, byte |-> 0]

NoIO == [kind |-> "none", db |-> 0, start |-> 0, orig |-> NoData, data |-> NoData,
         patched |-> {}]

FlushPcs == {"read", "get", "clear", "write"}

\* scheduling of the scenario: in "seq" one operation runs at a time; in "stage" f1
\* flushes while the other request thread only stages; in "conc" all threads run freely
MayRun(t) == mode = "seq" => \A u \in Threads \ {t} : pc[u] = "idle"
MayFlush(t) == mode = "stage" => t = "f1"

\* write_tag(tagpath, value, immediate=False): tag.set_pending_write_value(value)
Stage(t, p, v) ==
    /\ pc[t] = "idle"
    /\ MayRun(t)
    /\ budget.stage > 0
    /\ pending' = [pending EXCEPT ![p] = v]
    /\ late' = [u \in Threads |->
                  IF u # t /\ pc[u] \in FlushPcs THEN [late[u] EXCEPT ![p] = v] ELSE late[u]]
    /\ budget' = [budget EXCEPT !.stage = @ - 1]
    /\ UNCHANGED <<st, sess, api, mon, sw, mode, tags, decl, plc, value, monValue, queue, pc, fl, wi, lastWritten, lastIO>>

\* the for-loop of write_pending_tags moves to the next data block, or returns
NextGroup(t, f) ==
    IF Len(f.groups) > 1
    THEN /\ pc' = [pc EXCEPT ![t] = "read"]
         /\ fl' = [fl EXCEPT ![t] = [f EXCEPT !.groups = Tail(@), !.grp = <<>>,
                                               !.data = NoData, !.orig = NoData, !.i = 0]]
    ELSE /\ pc' = [pc EXCEPT ![t] = "done"]
         /\ fl' = [fl EXCEPT ![t] = [f EXCEPT !.groups = <<>>, !.grp = <<>>,
                                               !.data = NoData, !.orig = NoData, !.i = 0]]

\* except Exception: results[tag.tagpath] = False for every tag of the group
MarkFailed(f, why) ==
    [f EXCEPT !.results = [p \in Paths |-> IF p \in SeqToSet(f.grp) THEN "False" ELSE @[p]],
              !.wr = [@ EXCEPT ![f.db] = why]]

\* write_pending_tags, lines 498-511: collect the pending tags and group them; the
\* caller is at position `at`
WPT_CollectFrom(t, at) ==
    /\ pc[t] = at
    /\ MayRun(t)
    /\ MayFlush(t)
    /\ budget.flush > 0
    /\ budget' = [budget EXCEPT !.flush = @ - 1]
    /\ LET pending_tags == SelectSeq(tags, has_pending_write)
       IN  IF pending_tags = <<>>
           THEN /\ pc' = [pc EXCEPT ![t] = "done"]
                /\ fl' = [fl EXCEPT ![t] = FlIdle]
           ELSE /\ pc' = [pc EXCEPT ![t] = "read"]
                /\ fl' = [fl EXCEPT ![t] =
                            [FlIdle EXCEPT !.groups = GroupKeys(pending_tags),
                                           !.pre = pending]]
    /\ late' = [late EXCEPT ![t] = [p \in Paths |-> None]]
    /\ lastIO' = [lastIO EXCEPT ![t] = NoIO]
    /\ UNCHANGED <<st, sess, api, mon, sw, mode, tags, decl, plc, value, pending, monValue, queue, wi, lastWritten>>

WPT_Collect(t) == WPT_CollectFrom(t, "idle")

\* lines 514-524: the range of the group and readDB_Byte; bytearray(None) raises
\* when the read failed
WPT_Read(t) ==
    /\ pc[t] = "read"
    /\ \E out \in IOOutcomes :
         LET f == fl[t]
             db == Head(f.groups)
             \* the group was built from the tags pending at the collect step
             grp == GroupOf(SelectSeq(tags, LAMBDA p : ~IsNone(f.pre[p])), db)
             rng == calculate_write_range(grp)
             write_size == rng[2] - rng[1] + 1
             res == readDB_Byte(out, db, rng[1], write_size)
             g == [f EXCEPT !.db = db, !.grp = grp, !.start = rng[1]]
         IN  IF res[1]
             THEN /\ pc' = [pc EXCEPT ![t] = "get"]
                  /\ fl' = [fl EXCEPT ![t] = [g EXCEPT !.orig = res[2], !.data = res[2],
                                                        !.i = 1]]
             ELSE NextGroup(t, MarkFailed(g, "read_failed"))
    /\ UNCHANGED <<st, sess, api, mon, sw, mode, tags, decl, plc, value, pending, monValue, queue, wi,
                   lastWritten, late, lastIO, budget>>

\* lines 526-590: value = tag.get_pending_write_value() and the patch of modified_data
WPT_Get(t) ==
    /\ pc[t] = "get"
    /\ LET f == fl[t]
           p == f.grp[f.i]
           d == decl[p]
           v == pending[p]
           rel == d.off - f.start
       IN  IF d.type = "bool"
           THEN /\ pc' = [pc EXCEPT ![t] = "clear"]
                /\ fl' = [fl EXCEPT ![t] =
                            [f EXCEPT !.data = set_bool_in_bytearray(f.data, rel, d.bit, v),
                                      !.enc = [@ EXCEPT ![p] = PyBool(Truthy(v))]]]
           ELSE IF d.type = "string"
           THEN \* value.encode raises AttributeError for a value that is no str; after
                \* a caught UnicodeEncodeError string_bytes is what an earlier tag left,
                \* or unbound (UnboundLocalError)
                LET string_bytes == IF StrEncodable(v) THEN StrBytes(v) ELSE f.sb
                IN  IF \/ v[1] \notin {"str", "text"}
                       \/ string_bytes = Unbound
                       \/ TruncateRaises(string_bytes, d.size)
                    THEN NextGroup(t, MarkFailed(f, "patch_failed"))
                    ELSE LET cut == TruncateGbk(string_bytes, d.size)
                         IN  /\ pc' = [pc EXCEPT ![t] = "clear"]
                             /\ fl' = [fl EXCEPT ![t] =
                                  [f EXCEPT !.data = PatchBytes(f.data, rel,
                                                                StringBuffer(d.size, cut)),
                                            !.sb = cut,
                                            !.enc = [@ EXCEPT ![p] = v]]]
           ELSE IF IntEncodable(v)
           THEN /\ pc' = [pc EXCEPT ![t] = "clear"]
                /\ fl' = [fl EXCEPT ![t] =
                            [f EXCEPT !.data = set_int(f.data, rel, v),
                                      !.enc = [@ EXCEPT ![p] = PyInt(v[2])]]]
           ELSE \* set_int raises: the except branch of the group
                NextGroup(t, MarkFailed(f, "patch_failed"))
    /\ UNCHANGED <<st, sess, api, mon, sw, mode, tags, decl, plc, value, pending, monValue, queue, wi,
                   lastWritten, late, lastIO, budget>>

\* lines 592-595: tag.clear_pending_write_value(); results[tag.tagpath] = True
WPT_Clear(t) ==
    /\ pc[t] = "clear"
    /\ LET f == fl[t]
           p == f.grp[f.i]
       IN  /\ pending' = [pending EXCEPT ![p] = None]
           /\ fl' = [fl EXCEPT ![t] = [f EXCEPT !.results = [@ EXCEPT ![p] = "True"],
                                                 !.i = @ + 1]]
           /\ pc' = [pc EXCEPT ![t] = IF f.i < Len(f.grp) THEN "get" ELSE "write"]
    /\ UNCHANGED <<st, sess, api, mon, sw, mode, tags, decl, plc, value, monValue, queue, wi,
                   lastWritten, late, lastIO, budget>>

\* lines 597-598: writeDB_Byte(db_number, start_offset, modified_data); its return
\* value is not looked at
WPT_Write(t) ==
    /\ pc[t] = "write"
    /\ \E out \in IOOutcomes :
         LET f == fl[t]
             ok == writeDB_Byte(out)[1]
         IN  /\ plc' = IF ok THEN DbWrite(f.db, f.start, f.data) ELSE plc
             /\ lastWritten' =
                  IF ok THEN [p \in Paths |->
                                IF p \in SeqToSet(f.grp) THEN f.enc[p] ELSE lastWritten[p]]
                  ELSE lastWritten
             /\ lastIO' = IF ok
                          THEN [lastIO EXCEPT ![t] =
                                  [kind |-> "flush", db |-> f.db, start |-> f.start,
                                   orig |-> f.orig, data |-> f.data,
                                   patched |-> SeqToSet(f.grp)]]
                          ELSE lastIO
             /\ NextGroup(t, [f EXCEPT !.wr = [@ EXCEPT ![f.db] =
                                                  IF ok THEN "ok" ELSE "write_failed"]])
    /\ UNCHANGED <<st, sess, api, mon, sw, mode, tags, decl, value, pending, monValue, queue, wi, late, budget>>

\* line 606 / 506: return results; the request thread answers and is free again
WPT_Return(t) ==
    /\ pc[t] = "done"
    /\ pc' = [pc EXCEPT ![t] = "idle"]
    /\ fl' = [fl EXCEPT ![t] = FlIdle]
    /\ late' = [late EXCEPT ![t] = [p \in Paths |-> None]]
    /\ lastIO' = [lastIO EXCEPT ![t] = NoIO]
    /\ UNCHANGED <<st, sess, api, mon, sw, mode, tags, decl, plc, value, pending, monValue, queue, wi,
                   lastWritten, budget>>

-----------------------------------------------------------------------------
(* write_tag(tagpath, value, immediate=True) on the sync session *)

\* writeDB_Bit up to and including client.db_read(db_num, byte_offset, 1); every
\* failure before the write returns False and leaves the tag alone
WI_BitRead(t, p, v) ==
    /\ pc[t] = "idle"
    /\ MayRun(t)
    /\ budget.imm > 0
    /\ decl[p].type = "bool"
    /\ budget' = [budget EXCEPT !.imm = @ - 1]
    /\ \E out \in IOOutcomes :
         IF out = "ok"
         THEN /\ pc' = [pc EXCEPT ![t] = "wbit"]
              /\ wi' = [wi EXCEPT ![t] = [path |-> p, val |-> v,
                                          byte |-> plc[decl[p].db][decl[p].off]]]
         ELSE UNCHANGED <<pc, wi>>
    /\ UNCHANGED <<st, sess, api, mon, sw, mode, tags, decl, plc, value, pending, monValue, queue, fl,
                   lastWritten, late, lastIO>>

\* writeDB_Bit: util.set_bool, client.db_write; then write_tag: tag.value = value
WI_BitWrite(t) ==
    /\ pc[t] = "wbit"
    /\ pc' = [pc EXCEPT ![t] = "idle"]
    /\ wi' = [wi EXCEPT ![t] = WiIdle]
    /\ \E out \in {"ok", "s7_error"} :
         LET p == wi[t].path
             d == decl[p]
             boolData == util_set_bool(wi[t].byte, d.bit, wi[t].val)
             one == [j \in {0} |-> boolData]
         IN  IF out = "ok"
             THEN /\ plc' = DbWrite(d.db, d.off, one)
                  /\ TagAssign(p, wi[t].val)
                  /\ lastWritten' = [lastWritten EXCEPT ![p] = wi[t].val]
                  /\ lastIO' = [lastIO EXCEPT ![t] =
                                  [kind |-> "bit", db |-> d.db, start |-> d.off,
                                   orig |-> [j \in {0} |-> wi[t].byte], data |-> one,
                                   patched |-> {p}]]
             ELSE UNCHANGED <<plc, value, monValue, queue, lastWritten, lastIO>>
    /\ UNCHANGED <<st, sess, api, mon, sw, mode, tags, decl, pending, fl, late, budget>>

-----------------------------------------------------------------------------
(* The flush scenarios *)
InitFlush(m) ==
    /\ mode = m
    /\ tags = FlushTags
    /\ decl = FlushDecl
    /\ plc = [db \in DBs |-> [o \in 0..(DBLen(db) - 1) |-> IF db = 1 /\ o = 0 THEN 2 ELSE 0]]
    /\ value = [p \in Paths |-> None]
    /\ pending = [p \in Paths |-> None]
    /\ monValue = [p \in Paths |-> None]
    /\ queue = [p \in Paths |-> <<>>]
    /\ pc = [t \in AllThreads |-> "idle"]
    /\ sw = SwIdle
    /\ st = StIdle
    /\ sess = SessIdle
    /\ api = ApiIdle
    /\ mon = MonIdle
    /\ fl = [t \in Threads |-> FlIdle]
    /\ wi = [t \in Threads |-> WiIdle]
    /\ lastWritten = [p \in Paths |-> None]
    /\ late = [t \in Threads |-> [p \in Paths |-> None]]
    /\ lastIO = [t \in Threads |-> NoIO]
    /\ budget = [stage |-> MaxStage, flush |-> MaxFlush, imm |-> MaxImm]

FlushNext ==
    \/ \E t \in Flushers : \E p \in Paths : \E v \in StageValues(p) : Stage(t, p, v)
    \/ \E t \in Flushers : WPT_Collect(t)
    \/ \E t \in Flushers : WPT_Read(t)
    \/ \E t \in Flushers : WPT_Get(t)
    \/ \E t \in Flushers : WPT_Clear(t)
    \/ \E t \in Flushers : WPT_Write(t)
    \/ \E t \in Flushers : WPT_Return(t)
    \/ \E t \in Writers : \E p \in Paths : \E v \in StageValues(p) : WI_BitRead(t, p, v)
    \/ \E t \in Writers : WI_BitWrite(t)

\* one operation at a time
Spec == InitFlush("seq") /\ [][FlushNext]_vars

\* one request thread flushes while the other stages
SpecStage == InitFlush("stage") /\ [][FlushNext]_vars

\* request threads and the immediate writer run side by side
SpecConc == InitFlush("conc") /\ [][FlushNext]_vars

-----------------------------------------------------------------------------
(* Claims about the flush *)

PendingAtStart(t, p) == ~IsNone(fl[t].pre[p])
GroupFailed(t, db) == fl[t].wr[db] \in {"read_failed", "patch_failed", "write_failed"}

\* C1: when the block read, the patching or the block write of a flush failed, every
\* tag of that block that was pending before the flush has the same pending value
\* when the flush returns.
C1_PendingKeptOnFailure ==
    \A t \in Flushers :
        pc[t] = "done" =>
            \A p \in Paths :
                (PendingAtStart(t, p) /\ GroupFailed(t, decl[p].db))
                    => pending[p] = fl[t].pre[p]

\* C2: a value staged while a flush is running is, when the flush returns, either
\* still pending or was encoded into a block that the flush wrote to the PLC.
\* (Stated for flushes none of whose block reads, patches or writes failed, so that a
\* loss is due to the interleaving alone.)
C2_NoStagedWriteLost ==
    \A t \in Flushers :
        (pc[t] = "done" /\ \A db \in DBs : ~GroupFailed(t, db)) =>
            \A p \in Paths :
                ~IsNone(late[t][p]) =>
                    \/ pending[p] = late[t][p]
                    \/ (fl[t].enc[p] = late[t][p] /\ fl[t].wr[decl[p].db] = "ok")

\* C3: after a flush whose block write succeeded, every tag flushed in that block has
\* current_value equal to the value that was pending and an empty pending slot.
C3_CommittedOnSuccess ==
    \A t \in Flushers :
        pc[t] = "done" =>
            \A p \in Paths :
                (PendingAtStart(t, p) /\ fl[t].wr[decl[p].db] = "ok")
                    => (value[p] = fl[t].pre[p] /\ ~has_pending_write(p))

\* C4: the result map reports True for a tag exactly when the block write holding
\* the tag's encoded value succeeded; a failed writeDB_Byte reports every pending tag
\* of the block False.
C4_ResultIffWritten ==
    \A t \in Flushers :
        pc[t] = "done" =>
            \A p \in Paths :
                PendingAtStart(t, p) =>
                    ((fl[t].results[p] = "True") <=> (fl[t].wr[decl[p].db] = "ok"))

\* the bits of the written range a patched tag owns
Owns(p, start, j, k) ==
    IF decl[p].type = "bool"
    THEN decl[p].off - start = j /\ decl[p].bit = k
    ELSE j \in (decl[p].off - start)..(decl[p].off - start + decl[p].size - 1)

\* C5: a read-modify-write (a flush, or writeDB_Bit) writes back, for every bit that
\* is not the bit of a bool tag being written (nor a byte of another tag being
\* written), the value the preceding read of the same operation returned.
C5_BoolWritePreservesSiblings ==
    \A t \in Threads :
        LET io == lastIO[t]
        IN  io.kind # "none" =>
                \A j \in DOMAIN io.data : \A k \in 0..7 :
                    (\A p \in io.patched : ~Owns(p, io.start, j, k))
                        => BitOf(io.data[j], k) = BitOf(io.orig[j], k)

\* reached: byte 0 of DB 1 was read as 0x02 and written back as 0x03 by a flush of
\* the bool tag at bit 0
C5_Witness ==
    \E t \in Flushers :
        /\ lastIO[t].kind = "flush"
        /\ lastIO[t].patched = {"b0"}
        /\ lastIO[t].orig[0] = 2
        /\ lastIO[t].data[0] = 3

\* C6: no read-modify-write reverts a tag value another one has written: every tag
\* decodes, from the PLC's memory, to the value of the last successful write of it.
C6_NoLostUpdate ==
    \A p \in Paths :
        ~IsNone(lastWritten[p]) => DecodeTag(plc, p) = lastWritten[p]

-----------------------------------------------------------------------------
(* read_all_tags: the read sweep *)

\* data[a:b] of a bytearray (Python clips a slice to the data)
Slice(data, a, b) ==
    LET hi == IF b < Cardinality(DOMAIN data) THEN b ELSE Cardinality(DOMAIN data)
    IN  [i \in 1..(IF hi > a THEN hi - a ELSE 0) |-> data[a + i - 1]]

\* lines 382-403: the string branch, given buffer = data[rel : rel + size + 2]
DecodeString(buffer) ==
    LET actual_length == buffer[2]
        string_bytes == Slice([j \in 0..(Len(buffer) - 1) |-> buffer[j + 1]], 2, 2 + actual_length)
        shorter == IF string_bytes = <<>> THEN <<>>
                   ELSE SubSeq(string_bytes, 1, Len(string_bytes) - 1)
    IN  IF GbkValid(string_bytes) THEN PyStr(string_bytes)
        ELSE IF GbkValid(shorter) THEN PyStr(shorter)
        ELSE PyBytes(string_bytes)

\* a getter that raises takes the whole block with it
getter_failure_aborts(d, data, rel) ==
    d.type = "int" /\ Len(Slice(data, rel, rel + d.size)) < 2

\* buffer[1] raises IndexError outside the per-tag try blocks
StringHeaderMissing(d, data, rel) ==
    d.type = "string" /\ Len(Slice(data, rel, rel + d.size + 2)) < 2

\* lines 349-408: the value decoded for one tag from the bytes of its group; a
\* snap7 getter that raises leaves value = None
DecodeValue(d, data, rel) ==
    LET tag_data == Slice(data, rel, rel + d.size)
    IN  CASE d.type = "bool" ->
               IF Len(tag_data) < 1 THEN None ELSE get_bool(tag_data[1], d.bit)
          [] d.type = "int" ->
               IF Len(tag_data) < 2 THEN None ELSE get_int(tag_data[1], tag_data[2])
          [] d.type = "real" ->
               IF Len(tag_data) < 4 THEN None
               ELSE PyReal(((tag_data[1] * 256 + tag_data[2]) * 256 + tag_data[3]) * 256
                           + tag_data[4])
          [] d.type = "string" -> DecodeString(Slice(data, rel, rel + d.size + 2))
          [] OTHER -> PyBytes(tag_data)

\* lines 353-404: the getter of the tag's type raised, or neither string_bytes nor
\* string_bytes[:-1] is GBK text
DecodeFails(d, data, rel) ==
    LET tag_data == Slice(data, rel, rel + d.size)
        buffer == Slice(data, rel, rel + d.size + 2)
        string_bytes ==
            Slice([j \in 0..(Len(buffer) - 1) |-> buffer[j + 1]], 2, 2 + buffer[2])
    IN  CASE d.type = "bool" -> Len(tag_data) < 1
          [] d.type = "int" -> Len(tag_data) < 2
          [] d.type = "real" -> Len(tag_data) < 4
          [] d.type = "string" ->
               /\ ~GbkValid(string_bytes)
               /\ string_bytes # <<>>
               /\ ~GbkValid(SubSeq(string_bytes, 1, Len(string_bytes) - 1))
          [] OTHER -> FALSE

Unset == <<"unset", 0>>

\* lines 327-335: group all tags by data block
RAT_Start(t) ==
    /\ pc[t] = "idle"
    /\ pc' = [pc EXCEPT ![t] = IF tags = <<>> THEN "done" ELSE "sweep"]
    /\ sw' = [groups |-> GroupKeys(tags), reads |-> <<>>,
              results |-> [p \in DOMAIN decl |-> Unset],
              failedReads |-> {}, decodeFailed |-> {}, prev |-> value, prevq |-> queue]
    /\ UNCHANGED <<st, sess, api, mon, mode, tags, decl, plc, value, pending, monValue, queue, fl, wi,
                   lastWritten, late, lastIO, budget>>

\* lines 338-418: one data block: its range, one readDB_Byte, the decoding of its
\* tags and their assignment; data[...] raises when the read returned (False, None)
RAT_GroupOut(t, out) ==
    /\ pc[t] = "sweep"
    /\   LET db == Head(sw.groups)
             grp == GroupOf(tags, db)
             rng == calculate_read_range(grp)
             read_size == rng[2] - rng[1] + 1
             res == readDB_Byte(out, db, rng[1], read_size)
             data == res[2]
             rel(p) == decl[p].off - rng[1]
             \* the tags up to the first one whose decoding raises out of the loop
             bad == {i \in 1..Len(grp) : StringHeaderMissing(decl[grp[i]], data, rel(grp[i]))}
             stop == IF bad = {} THEN Len(grp) + 1 ELSE MinOf(bad)
             assigned == {grp[i] : i \in 1..(stop - 1)}
             dec(p) == DecodeValue(decl[p], data, rel(p))
         IN  /\ sw' = [sw EXCEPT
                         !.groups = Tail(@),
                         !.reads = Append(@, <<db, rng[1], read_size>>),
                         !.results = [p \in DOMAIN decl |->
                             IF p \in SeqToSet(grp)
                             THEN IF res[1] /\ bad = {} THEN dec(p) ELSE None
                             ELSE @[p]],
                         !.failedReads = IF out = "ok" THEN @ ELSE @ \cup {db},
                         !.decodeFailed =
                             IF res[1]
                             THEN @ \cup {q \in assigned : DecodeFails(decl[q], data, rel(q))}
                             ELSE @]
             /\ IF res[1]
                THEN /\ value' = [p \in DOMAIN decl |->
                                    IF p \in assigned THEN dec(p) ELSE value[p]]
                     /\ monValue' = [p \in DOMAIN decl |->
                                    IF p \in assigned THEN dec(p) ELSE monValue[p]]
                     /\ queue' = [p \in DOMAIN decl |->
                                    IF p \in assigned
                                    THEN queue[p] \o Entries(monitor_set(monValue[p], dec(p)), 0)
                                    ELSE queue[p]]
                ELSE UNCHANGED <<value, monValue, queue>>
             /\ pc' = [pc EXCEPT ![t] = IF Len(sw.groups) > 1 THEN "sweep" ELSE "done"]
    /\ UNCHANGED <<st, sess, api, mon, mode, tags, decl, plc, pending, fl, wi, lastWritten, late, lastIO, budget>>

\* the read may end in any of the outcomes of readDB_Byte
RAT_Group(t) == \E out \in IOOutcomes : RAT_GroupOut(t, out)

\* line 420: return results
RAT_Return(t) ==
    /\ pc[t] = "done"
    /\ pc' = [pc EXCEPT ![t] = "idle"]
    /\ sw' = SwIdle
    /\ UNCHANGED <<st, sess, api, mon, mode, tags, decl, plc, value, pending, monValue, queue, fl, wi,
                   lastWritten, late, lastIO, budget>>

-----------------------------------------------------------------------------
(* The sweep scenarios: three tags declared anywhere in two data blocks *)
\* start offsets 0..MaxOff
MaxOff == 4
\* declared size of the string tags
StrSize == 2

RangeTags == <<"t1", "t2", "t3">>
RangePaths == {"t1", "t2", "t3"}

TypeSizes == {<<"bool", 1>>, <<"int", 2>>, <<"real", 4>>, <<"string", StrSize>>}

DeclChoices(dbs) ==
    {[db |-> db, off |-> off, size |-> ts[2], type |-> ts[1], bit |-> 0] :
        db \in dbs, off \in 0..MaxOff, ts \in TypeSizes}

\* every data block is long enough for any declared tag
RangeDBLen == MaxOff + 8

InitRange ==
    /\ mode = "seq"
    /\ tags = RangeTags
    /\ decl \in {d \in [RangePaths -> DeclChoices(DBs)] : d["t1"].db = 1 /\ d["t2"].db = 1}
    /\ plc = [db \in DBs |-> [o \in 0..(RangeDBLen - 1) |-> 0]]
    /\ value = [p \in RangePaths |-> None]
    /\ pending = [p \in RangePaths |-> None]
    /\ monValue = [p \in RangePaths |-> None]
    /\ queue = [p \in RangePaths |-> <<>>]
    /\ pc = [t \in AllThreads |-> "idle"]
    /\ sw = SwIdle
    /\ st = StIdle
    /\ sess = SessIdle
    /\ api = ApiIdle
    /\ mon = MonIdle
    /\ fl = [t \in Threads |-> FlIdle]
    /\ wi = [t \in Threads |-> WiIdle]
    /\ lastWritten = [p \in RangePaths |-> None]
    /\ late = [t \in Threads |-> [p \in Paths |-> None]]
    /\ lastIO = [t \in Threads |-> NoIO]
    /\ budget = [stage |-> 0, flush |-> 0, imm |-> 0]

RangeNext ==
    \/ \E t \in Sweepers : RAT_Start(t)
    \/ \E t \in Sweepers : RAT_Group(t)
    \/ \E t \in Sweepers : RAT_Return(t)

SpecRange == InitRange /\ [][RangeNext]_vars

\* effective_size: size, plus the 2-byte header for a string
EffectiveSize(d) == IF d.type = "string" THEN d.size + 2 ELSE d.size

\* C7: a sweep issues exactly one read per data block, from a = min(start_offset)
\* with length b - a + 1 where b = max(start_offset + effective_size - 1), so every
\* tag's slice [start_offset - a, start_offset - a + effective_size) lies inside the
\* bytes read.
C7_OneCoveringReadPerBlock ==
    \A t \in Sweepers :
        pc[t] \in {"sweep", "done"} =>
            /\ \A i \in 1..Len(sw.reads) :
                 LET db == sw.reads[i][1]
                     ofDb == {p \in DOMAIN decl : decl[p].db = db}
                     a == MinOf({decl[p].off : p \in ofDb})
                     b == MaxOf({decl[p].off + EffectiveSize(decl[p]) - 1 : p \in ofDb})
                 IN  /\ ofDb # {}
                     /\ sw.reads[i] = <<db, a, b - a + 1>>
                     /\ \A p \in ofDb :
                          /\ decl[p].off - a >= 0
                          /\ decl[p].off - a + EffectiveSize(decl[p]) <= sw.reads[i][3]
                     /\ \A j \in 1..Len(sw.reads) : sw.reads[j][1] = db => j = i
            /\ pc[t] = "done" =>
                 {sw.reads[i][1] : i \in 1..Len(sw.reads)} = {decl[p].db : p \in DOMAIN decl}

\* reached: tags at offsets 0 (bool, size 1), 2 (int, size 2) and 4 (real, size 4) of
\* one data block, and a finished sweep that issued the single read (db, 0, 8)
C7_Witness ==
    /\ pc["r"] = "done"
    /\ decl["t1"] = [db |-> 1, off |-> 0, size |-> 1, type |-> "bool", bit |-> 0]
    /\ decl["t2"] = [db |-> 1, off |-> 2, size |-> 2, type |-> "int", bit |-> 0]
    /\ decl["t3"] = [db |-> 1, off |-> 4, size |-> 4, type |-> "real", bit |-> 0]
    /\ sw.reads = <<<<1, 0, 8>>>>

-----------------------------------------------------------------------------
(* The monitored tag: DBPLCTag.value (setter), VariableMonitor and its consumer *)
\* assignments made to the monitored tag in one behaviour
MaxAssign == 4

\* the text 'false' in the default_value column
FalseText == <<102, 97, 108, 115, 101>>
DefaultCells == {<<"NULL", 0>>, <<"INTEGER", 0>>, <<"INTEGER", 1>>, <<"TEXT", FalseText>>}

\* row[6] as sqlite3 returns it: None, an int or a str (never a bool)
SqliteToPy(cell) ==
    CASE cell[1] = "NULL" -> None
      [] cell[1] = "INTEGER" -> PyInt(cell[2])
      [] cell[1] = "TEXT" -> PyStr(cell[2])

MonTag == "m"
MonDecl == [db |-> 1, off |-> 0, size |-> 1, type |-> "bool", bit |-> 0]

\* handle_registe / register_handler: one handler registered for each kind
event_handlers(kind) ==
    CASE kind = CHANGE -> <<"handle_change">>
      [] kind = RISING -> <<"handle_rising_edge">>
      [] kind = FALLING -> <<"handle_falling_edge">>
      [] kind = BOTH -> <<"handle_both_edge">>
      [] OTHER -> <<>>

\* an entry put at the head of the queue
QueuePutFront(q, e) == <<e>> \o q

\* queue.Queue.put
QueuePut(q, e) == Append(q, e)

\* the values the setters assign: what the sweep decodes for a bool tag, and what
\* write_tag(immediate=True) stores after a successful write
AssignValues(t) ==
    IF t \in Sweepers THEN {get_bool(b, MonDecl.bit) : b \in {0, 1}}
    ELSE {PyBool(TRUE), PyBool(FALSE), None}

\* tags_manager.py 88-91 and monitor.py 150-156: tag.value = v takes the tag's
\* _value_lock, stores self._value, and in the monitor (under its _lock) reads
\* old_value, stores new_value, compares, and determines the events that
\* _detect_change is going to put
Asg_Set(t, v) ==
    /\ pc[t] = "idle"
    /\ Len(mon.hist) < MaxAssign
    /\ mon.lock = "none"
    /\ value' = [value EXCEPT ![MonTag] = v]
    /\ monValue' = [monValue EXCEPT ![MonTag] = v]
    /\ LET id == Len(mon.hist) + 1
       IN  mon' = [mon EXCEPT
                     !.lock = t,
                     !.cur[t] = [v |-> v, id |-> id,
                                 evs |-> Entries(monitor_set(monValue[MonTag], v), id)],
                     !.hist = Append(@, [v |-> v, id |-> id, by |-> t]),
                     !.pred = Append(@, mon.completed)]
    /\ pc' = [pc EXCEPT ![t] = "asg_put"]
    /\ UNCHANGED <<st, sess, api, tags, decl, plc, pending, queue, fl, wi, lastWritten,
                   late, lastIO, sw, budget, mode>>

\* monitor.py 162, 169-170, 175-176: one self._event_queue.put
Asg_Put(t) ==
    /\ pc[t] = "asg_put"
    /\ mon.cur[t].evs # <<>>
    /\ queue' = [queue EXCEPT ![MonTag] = QueuePut(@, Head(mon.cur[t].evs))]
    /\ mon' = [mon EXCEPT !.cur[t].evs = Tail(@)]
    /\ UNCHANGED <<st, sess, api, tags, decl, plc, value, pending, monValue, pc, fl, wi, lastWritten,
                   late, lastIO, sw, budget, mode>>

\* the setters return and the locks are released
Asg_Return(t) ==
    /\ pc[t] = "asg_put"
    /\ mon.cur[t].evs = <<>>
    /\ mon' = [mon EXCEPT !.lock = "none", !.cur[t] = NoAsg,
                          !.completed = @ \cup {mon.cur[t].id}]
    /\ pc' = [pc EXCEPT ![t] = "idle"]
    /\ UNCHANGED <<st, sess, api, tags, decl, plc, value, pending, monValue, queue, fl, wi, lastWritten,
                   late, lastIO, sw, budget, mode>>

\* monitor.py 205-219: the consumer thread takes the oldest entry and calls every
\* handler registered for its kind
Consume ==
    /\ queue[MonTag] # <<>>
    /\ LET e == Head(queue[MonTag])
           hs == event_handlers(e.kind)
       IN  mon' = [mon EXCEPT !.delivered =
                      @ \o [i \in 1..Len(hs) |-> [handler |-> hs[i], ev |-> e]]]
    /\ queue' = [queue EXCEPT ![MonTag] = Tail(@)]
    /\ UNCHANGED <<st, sess, api, tags, decl, plc, value, pending, monValue, pc, fl, wi, lastWritten,
                   late, lastIO, sw, budget, mode>>

\* create_tag for one monitored bool tag whose default comes from load_tags_conf
InitMon ==
    /\ mode = "conc"
    /\ tags = <<MonTag>>
    /\ decl = [p \in {MonTag} |-> MonDecl]
    /\ plc = [db \in DBs |-> [o \in 0..(DBLen(db) - 1) |-> 0]]
    /\ \E cell \in DefaultCells :
         /\ mon = [MonIdle EXCEPT !.cell = cell]
         /\ monValue = [p \in {MonTag} |-> SqliteToPy(cell)]
    /\ value = [p \in {MonTag} |-> None]
    /\ pending = [p \in {MonTag} |-> None]
    /\ queue = [p \in {MonTag} |-> <<>>]
    /\ pc = [t \in AllThreads |-> "idle"]
    /\ sw = SwIdle
    /\ st = StIdle
    /\ sess = SessIdle
    /\ api = ApiIdle
    /\ fl = [t \in Threads |-> FlIdle]
    /\ wi = [t \in Threads |-> WiIdle]
    /\ lastWritten = [p \in {MonTag} |-> None]
    /\ late = [t \in Threads |-> [p \in Paths |-> None]]
    /\ lastIO = [t \in Threads |-> NoIO]
    /\ budget = [stage |-> 0, flush |-> 0, imm |-> 0]

MonNext ==
    \/ \E t \in Setters : \E v \in AssignValues(t) : Asg_Set(t, v)
    \/ \E t \in Setters : Asg_Put(t)
    \/ \E t \in Setters : Asg_Return(t)
    \/ Consume

SpecMon == InitMon /\ [][MonNext]_vars

\* the events made so far, oldest first: dispatched, queued, and about to be put
Dispatched == [i \in 1..Len(mon.delivered) |-> mon.delivered[i].ev]
RECURSIVE InFlight(_)
InFlight(ts) ==
    IF ts = {} THEN <<>>
    ELSE LET t == CHOOSE x \in ts : TRUE
         IN  (IF pc[t] = "asg_put" THEN mon.cur[t].evs ELSE <<>>) \o InFlight(ts \ {t})
Produced == Dispatched \o queue[MonTag] \o InFlight(Setters)

KindsOf(es) == [i \in 1..Len(es) |-> es[i].kind]
ValuesOf(h) == [i \in 1..Len(h) |-> h[i].v]

\* the kinds one assignment is to produce
ExpectedKinds(old, new) ==
    IF PyEq(old, new) THEN <<>>
    ELSE IF old = PyBool(FALSE) /\ new = PyBool(TRUE) THEN <<CHANGE, RISING, BOTH>>
    ELSE IF old = PyBool(TRUE) /\ new = PyBool(FALSE) THEN <<CHANGE, FALLING, BOTH>>
    ELSE <<CHANGE>>

RECURSIVE ExpectedEvents(_, _)
ExpectedEvents(old, h) ==
    IF h = <<>> THEN <<>>
    ELSE LET ks == ExpectedKinds(old, h[1].v)
         IN  [i \in 1..Len(ks) |->
                 [kind |-> ks[i], old |-> old, new |-> h[1].v, src |-> h[1].id]]
             \o ExpectedEvents(h[1].v, Tail(h))

\* C8: an assignment with old = new produces no event; one with old # new produces
\* exactly one CHANGE, plus one RISING and one BOTH for bool false -> true or one
\* FALLING and one BOTH for bool true -> false; every event taken from the queue is
\* handed exactly once to the handler of its kind; and the assignments false, true,
\* true, false to a monitor whose value equals false are observed as exactly CHANGE,
\* RISING, BOTH, CHANGE, FALLING, BOTH.
C8_EventsExactlyOncePerChange ==
    /\ Produced = ExpectedEvents(SqliteToPy(mon.cell), mon.hist)
    /\ \A i \in 1..Len(mon.delivered) :
         event_handlers(mon.delivered[i].ev.kind) = <<mon.delivered[i].handler>>
    /\ ( /\ PyEq(SqliteToPy(mon.cell), PyBool(FALSE))
         /\ ValuesOf(mon.hist) = <<PyBool(FALSE), PyBool(TRUE), PyBool(TRUE), PyBool(FALSE)>>
         /\ mon.completed = 1..4
         /\ queue[MonTag] = <<>> )
       => KindsOf(Dispatched) = <<CHANGE, RISING, BOTH, CHANGE, FALLING, BOTH>>

\* reached: false, true, true, false assigned and all six events dispatched
C8_Witness ==
    /\ ValuesOf(mon.hist) = <<PyBool(FALSE), PyBool(TRUE), PyBool(TRUE), PyBool(FALSE)>>
    /\ mon.completed = 1..4
    /\ queue[MonTag] = <<>>
    /\ KindsOf(Dispatched) = <<CHANGE, RISING, BOTH, CHANGE, FALLING, BOTH>>

\* the declaration store holds false for the tag's default
DeclaredFalse(cell) == cell \in {<<"INTEGER", 0>>, <<"TEXT", FalseText>>}

CallsOf(h, id) ==
    {i \in 1..Len(mon.delivered) :
        /\ mon.delivered[i].handler = h
        /\ mon.delivered[i].ev.src = id}

\* C9: for a monitored bool tag whose declared default is false, once the first
\* background read that decodes true has been assigned and its events dispatched,
\* current_value is true and the RISING handler and the BOTH handler have each been
\* called exactly once with (old = false, new = true).
C9_FirstTrueReadRaisesEdges ==
    \A k \in 1..Len(mon.hist) :
        ( /\ DeclaredFalse(mon.cell)
          /\ k = Len(mon.hist)
          /\ mon.hist[k].by \in Sweepers
          /\ mon.hist[k].v = PyBool(TRUE)
          /\ \A j \in 1..(k - 1) :
               mon.hist[j].by \in Sweepers /\ mon.hist[j].v = PyBool(FALSE)
          /\ mon.hist[k].id \in mon.completed
          /\ mon.lock = "none"
          /\ queue[MonTag] = <<>> )
        => /\ value[MonTag] = PyBool(TRUE)
           /\ \A h \in {"handle_rising_edge", "handle_both_edge"} :
                /\ Cardinality(CallsOf(h, mon.hist[k].id)) = 1
                /\ \A i \in CallsOf(h, mon.hist[k].id) :
                     /\ PyEq(mon.delivered[i].ev.old, PyBool(FALSE))
                     /\ mon.delivered[i].ev.new = PyBool(TRUE)

\* C10: if assignment A to the tag completed before assignment B began, no event of
\* A comes after an event of B in the order in which the events are dispatched.
C10_DispatchFollowsAssignmentOrder ==
    \A i, j \in 1..Len(Produced) :
        i < j => Produced[j].src \notin mon.pred[Produced[i].src]

\* reached: both setters have assigned, one assignment finished before the other
\* began, and events of both have been dispatched in that order
C10_Witness ==
    \E i, j \in 1..Len(mon.delivered) :
        /\ i < j
        /\ mon.delivered[i].ev.src \in mon.pred[mon.delivered[j].ev.src]
        /\ \E a, b \in 1..Len(mon.hist) :
             /\ mon.hist[a].id = mon.delivered[i].ev.src
             /\ mon.hist[b].id = mon.delivered[j].ev.src
             /\ mon.hist[a].by # mon.hist[b].by

-----------------------------------------------------------------------------
(* read_tag and write_tag(immediate=True) on the sync client *)
\* single-tag calls made in one behaviour
MaxCalls == 3

SyncTags == <<"m", "u">>
SyncPaths == {"m", "u"}
\* "m" is a bool tag; "u" is declared with a data type the manager does not know
SyncDecl ==
    [p \in SyncPaths |->
        IF p = "m" THEN MonDecl
        ELSE [db |-> 1, off |-> 1, size |-> 2, type |-> "word", bit |-> 0]]

\* the data types read_tag and write_tag dispatch on
KnownTypes == {"bool", "int", "dint", "real", "lreal", "string"}

\* a read that reports success whatever happened
readDB_Bit_unchecked(out, b, bit_offset) == <<TRUE, get_bool(b, bit_offset)>>

\* PLCClient.readDB_Bit: (True, value), or (False, None) on any failure
readDB_Bit(out, b, bit_offset) ==
    IF out = "ok" THEN <<TRUE, get_bool(b, bit_offset)>> ELSE <<FALSE, None>>

\* PLCClient.writeDB_Bit: True, or False on any failure
writeDB_Bit(out) == out = "ok"

StCall(t, op, p, out, v) ==
    [st EXCEPT !.op[t] = op, !.path[t] = p, !.out[t] = out, !.v[t] = v,
               !.calls = @ + 1, !.last = t]

\* read_tag, lines 232-265 and 268-270: the dispatch on the data type and the
\* session call, which runs under the sync client's client_lock
RT_Call(t, p) ==
    /\ pc[t] = "idle"
    /\ st.calls < MaxCalls
    /\ IF decl[p].type \notin KnownTypes
       THEN /\ st' = StCall(t, "read", p, "unknown_type", None)
            /\ UNCHANGED pc
       ELSE \E out \in IOOutcomes :
              LET res == readDB_Bit(out, plc[decl[p].db][decl[p].off], decl[p].bit)
              IN  /\ st' = StCall(t, "read", p, out, res[2])
                  /\ pc' = [pc EXCEPT ![t] = IF res[1] THEN "st_assign" ELSE "idle"]
    /\ UNCHANGED <<sess, api, mon, sw, mode, tags, decl, plc, value, pending, monValue,
                   queue, fl, wi, lastWritten, late, lastIO, budget>>

\* write_tag(immediate=True), lines 281-314 and 318-320: the dispatch and
\* writeDB_Bit (db_read, set_bool, db_write under the sync client's client_lock)
WT_Call(t, p, v) ==
    /\ pc[t] = "idle"
    /\ st.calls < MaxCalls
    /\ IF decl[p].type \notin KnownTypes
       THEN /\ st' = StCall(t, "write", p, "unknown_type", v)
            /\ UNCHANGED <<pc, plc, lastWritten>>
       ELSE \E out \in IOOutcomes :
              LET d == decl[p]
                  boolData == util_set_bool(plc[d.db][d.off], d.bit, v)
              IN  /\ st' = StCall(t, "write", p, out, v)
                  /\ IF writeDB_Bit(out)
                     THEN /\ plc' = DbWrite(d.db, d.off, [j \in {0} |-> boolData])
                          /\ lastWritten' = [lastWritten EXCEPT ![p] = v]
                          /\ pc' = [pc EXCEPT ![t] = "st_assign"]
                     ELSE UNCHANGED <<pc, plc, lastWritten>>
    /\ UNCHANGED <<sess, api, mon, sw, mode, tags, decl, value, pending, monValue,
                   queue, fl, wi, late, lastIO, budget>>

\* lines 266-267 and 316-317: tag.value = value, and the call returns
ST_Assign(t) ==
    /\ pc[t] = "st_assign"
    /\ TagAssign(st.path[t], st.v[t])
    /\ pc' = [pc EXCEPT ![t] = "idle"]
    /\ UNCHANGED <<st, sess, api, mon, sw, mode, tags, decl, plc, pending, fl, wi,
                   lastWritten, late, lastIO, budget>>

InitSync ==
    /\ mode = "conc"
    /\ tags = SyncTags
    /\ decl = SyncDecl
    /\ plc = [db \in DBs |-> [o \in 0..(DBLen(db) - 1) |-> 0]]
    /\ value = [p \in SyncPaths |-> None]
    /\ pending = [p \in SyncPaths |-> None]
    /\ monValue = [p \in SyncPaths |-> None]
    /\ queue = [p \in SyncPaths |-> <<>>]
    /\ pc = [t \in AllThreads |-> "idle"]
    /\ sw = SwIdle
    /\ st = StIdle
    /\ sess = SessIdle
    /\ api = ApiIdle
    /\ mon = MonIdle
    /\ fl = [t \in Threads |-> FlIdle]
    /\ wi = [t \in Threads |-> WiIdle]
    /\ lastWritten = [p \in SyncPaths |-> None]
    /\ late = [t \in Threads |-> [p \in Paths |-> None]]
    /\ lastIO = [t \in Threads |-> NoIO]
    /\ budget = [stage |-> 0, flush |-> 0, imm |-> 0]

SyncNext ==
    \/ \E t \in Threads : \E p \in SyncPaths : RT_Call(t, p)
    \/ \E t \in Threads : \E p \in SyncPaths : \E v \in {PyBool(TRUE), PyBool(FALSE)} :
          WT_Call(t, p, v)
    \/ \E t \in Threads : ST_Assign(t)

SpecSync == InitSync /\ [][SyncNext]_vars

\* C12: write_pending_tags called when no tag has a pending value goes straight to
\* its return with an empty result map: no step of it reads or writes a data block,
\* and no tag's current value or pending slot (nor the PLC's memory) changes;
\* repeated calls behave the same.
C12_EmptyFlushIsNoOp ==
    [][ \A t \in Flushers :
          /\ ( /\ pc[t] = "idle"
               /\ pc'[t] \in {"read", "done"}
               /\ \A p \in Paths : IsNone(pending[p]) )
             => /\ pc'[t] = "done"
                /\ fl'[t].results = [p \in Paths |-> "unset"]
                /\ \A p \in Paths : IsNone(fl'[t].pre[p])
                /\ UNCHANGED <<plc, value, pending, monValue, queue, lastWritten>>
          /\ ( /\ pc[t] = "done"
               /\ \A p \in Paths : IsNone(fl[t].pre[p])
               /\ pc'[t] # "done" )
             => /\ pc'[t] = "idle"
                /\ UNCHANGED <<plc, value, pending, monValue, queue, lastWritten>> ]_vars

\* reached: the second of two flushes called with nothing pending is returning; no
\* value was ever staged and the PLC's memory is as it was
C12_Witness ==
    \E t \in Flushers :
        /\ pc[t] = "done"
        /\ budget.flush = MaxFlush - 2
        /\ budget.stage = MaxStage
        /\ budget.imm = MaxImm
        /\ \A p \in Paths : IsNone(fl[t].pre[p]) /\ IsNone(pending[p]) /\ IsNone(value[p])
        /\ fl[t].results = [p \in Paths |-> "unset"]
        /\ plc[1][0] = 2

\* C11: once every read_tag / write_tag(immediate=True) call on the tag has
\* returned, the tag's current value is the value of the last successful write to
\* the PLC, which is the value the PLC holds.
C11_ValueIsLastSuccessfulWrite ==
    ( /\ \A t \in Threads : pc[t] = "idle"
      /\ ~IsNone(lastWritten["m"]) )
    => /\ value["m"] = lastWritten["m"]
       /\ value["m"] = DecodeTag(plc, "m")

\* C15: a read_tag / write_tag(immediate=True) call whose session call did not
\* report success (not connected, lock timeout, library error, unknown data type)
\* returns leaving every tag's current value, pending slot and monitor queue as they
\* were; and a current value changes only in a call whose session call succeeded.
C15_FailedCallLeavesTagUnmodified ==
    [][ /\ ( /\ st'.calls = st.calls + 1
             /\ st'.out[st'.last] # "ok" )
          => /\ UNCHANGED <<value, pending, monValue, queue, plc>>
             /\ pc'[st'.last] = "idle"
        /\ value' # value
          => \E t \in Threads : pc[t] = "st_assign" /\ st.out[t] = "ok" ]_vars

\* reached: a write_tag that timed out on the lock has returned while the tag holds
\* the value of an earlier successful call
C15_Witness ==
    \E t \in Threads :
        /\ pc[t] = "idle"
        /\ st.op[t] = "write"
        /\ st.path[t] = "m"
        /\ st.out[t] = "lock_timeout"
        /\ st.v[t] = PyBool(FALSE)
        /\ value["m"] = PyBool(TRUE)
        /\ queue["m"] # <<>>

-----------------------------------------------------------------------------
(* Repeated sweeps over a PLC whose memory changes *)
\* changes the PLC program makes to the data blocks in one behaviour
MaxEnv == 2

SweepTags == <<"s", "b", "n">>
SweepPaths == {"s", "b", "n"}
\* a string and a bool in data block 1, an int in data block 2
SweepDecl ==
    [p \in SweepPaths |->
        CASE p = "s" -> [db |-> 1, off |-> 0, size |-> 2, type |-> "string", bit |-> 0]
          [] p = "b" -> [db |-> 1, off |-> 4, size |-> 1, type |-> "bool", bit |-> 0]
          [] p = "n" -> [db |-> 2, off |-> 0, size |-> 2, type |-> "int", bit |-> 0]]

SweepDBLen(db) == IF db = 1 THEN 5 ELSE 2

\* the bytes the PLC program may store: the string's length and characters ('A', a
\* GBK lead byte, 0xFF), the bool's byte, the int's low byte
EnvBytes(db, off) ==
    IF db = 1
    THEN CASE off = 1 -> {1, 2}
           [] off \in {2, 3} -> {65, 129, 255}
           [] off = 4 -> {0, 1}
           [] OTHER -> {}
    ELSE IF off = 1 THEN {0, 1} ELSE {}

\* the PLC program changes one byte of a data block
EnvWrite(db, off, b) ==
    /\ budget.env > 0
    /\ plc[db][off] # b
    /\ plc' = [plc EXCEPT ![db][off] = b]
    /\ budget' = [budget EXCEPT !.env = @ - 1]
    /\ UNCHANGED <<st, sess, api, mon, sw, mode, tags, decl, value, pending, monValue,
                   queue, pc, fl, wi, lastWritten, late, lastIO>>

\* the registry after initialize, with the sessions in state se
InitSweepWith(se) ==
    /\ mode = "seq"
    /\ tags = SweepTags
    /\ decl = SweepDecl
    /\ plc = [db \in DBs |->
                IF db = 1 THEN [o \in 0..4 |-> CASE o = 0 -> 2 [] o = 1 -> 2
                                                 [] o \in {2, 3} -> 65 [] OTHER -> 0]
                ELSE [o \in 0..(SweepDBLen(db) - 1) |-> 0]]
    /\ value = [p \in SweepPaths |-> None]
    /\ pending = [p \in SweepPaths |-> None]
    /\ monValue = [p \in SweepPaths |-> None]
    /\ queue = [p \in SweepPaths |-> <<>>]
    /\ pc = [t \in AllThreads |-> "idle"]
    /\ sw = SwIdle
    /\ st = StIdle
    /\ sess = se
    /\ api = ApiIdle
    /\ mon = MonIdle
    /\ fl = [t \in Threads |-> FlIdle]
    /\ wi = [t \in Threads |-> WiIdle]
    /\ lastWritten = [p \in SweepPaths |-> None]
    /\ late = [t \in Threads |-> [p \in Paths |-> None]]
    /\ lastIO = [t \in Threads |-> NoIO]
    /\ budget = [stage |-> 0, flush |-> 0, imm |-> 0, env |-> MaxEnv]

InitSweep == InitSweepWith(SessIdle)

SweepNext ==
    \/ \E t \in Sweepers : RAT_Start(t)
    \/ \E t \in Sweepers : RAT_Group(t)
    \/ \E t \in Sweepers : RAT_Return(t)
    \/ \E db \in DBs : \E off \in 0..(SweepDBLen(db) - 1) : \E b \in EnvBytes(db, off) :
          EnvWrite(db, off, b)

SpecSweep == InitSweep /\ [][SweepNext]_vars

TagsOfDb(db) == {p \in DOMAIN decl : decl[p].db = db}

\* C13: in a sweep, every tag of a data block whose read failed maps to None in the
\* result map and keeps the current value it had (no monitor event is produced for
\* it), and the other data blocks are still read and decoded: at the end of the sweep
\* every data block has been read once and every tag of a block that was read
\* successfully has its decoded value as result and as current value.
C13_FailedBlockReadIsIsolated ==
    \A t \in Sweepers :
        pc[t] \in {"sweep", "done"} =>
            /\ \A db \in sw.failedReads : \A p \in TagsOfDb(db) :
                 /\ sw.results[p] = None
                 /\ value[p] = sw.prev[p]
                 /\ queue[p] = sw.prevq[p]
            /\ pc[t] = "done" =>
                 /\ {sw.reads[i][1] : i \in 1..Len(sw.reads)} = {decl[p].db : p \in DOMAIN decl}
                 /\ \A p \in DOMAIN decl :
                      decl[p].db \notin sw.failedReads =>
                          /\ sw.results[p] # Unset
                          /\ sw.results[p] = value[p]

\* reached: a sweep in which data block 1 failed after an earlier sweep had given its
\* tags values, while data block 2 was read and its tag took a new value
C13_Witness ==
    /\ pc["r"] = "done"
    /\ sw.failedReads = {1}
    /\ sw.results["b"] = None
    /\ value["b"] = PyBool(TRUE)
    /\ sw.prev["n"] = PyInt(0)
    /\ value["n"] = PyInt(1)
    /\ sw.results["n"] = PyInt(1)

\* C14: a tag whose bytes could not be decoded in a sweep keeps its current value,
\* and nothing is forwarded to its monitor (its queue gets no event).
C14_DecodeFailureLeavesTagUnchanged ==
    \A t \in Sweepers :
        pc[t] \in {"sweep", "done"} =>
            \A p \in sw.decodeFailed :
                /\ value[p] = sw.prev[p]
                /\ queue[p] = sw.prevq[p]

-----------------------------------------------------------------------------
(* The HTTP routes /api/plc/read, /api/plc/write and /api/plc/batch *)
\* requests served in one behaviour
MaxReq == 2
\* current_app.config['MAX_BATCH_SIZE'] (100 unless configured), scaled down
MAX_BATCH_SIZE == 2

UnknownPath == "zz"
\* the paths a request may name, in the order a request lists them
AllReqPaths == FlushTags \o <<UnknownPath>>
ReadPaths == {"b0", UnknownPath}
RECURSIVE SeqsUpTo(_, _)
SeqsUpTo(S, n) ==
    IF n = 0 THEN {<<>>}
    ELSE LET shorter == SeqsUpTo(S, n - 1)
         IN  shorter \cup {Append(q, x) : q \in shorter, x \in S}
\* the 'tags' list of a read, and the keys of the JSON object of a write
ReadLists == SeqsUpTo(ReadPaths, MAX_BATCH_SIZE + 1)
WriteDicts == SUBSET SeqToSet(AllReqPaths)
KeysOf(w) == SelectSeq(AllReqPaths, LAMBDA p : p \in w)
\* the value a request carries for a path
ApiValue(p) == IF p \in Paths /\ FlushDecl[p].type = "int" THEN PyInt(258) ELSE PyBool(TRUE)

\* a validation that accepts every path
validate_any(tag_path) == TRUE

\* validation.py: tag_path in PLC.DB.tags
validate_tag_path(tag_path) == tag_path \in DOMAIN decl
\* validate_tag_paths / validate_write_data: (is_valid, invalid)
InvalidPaths(ps) == SelectSeq(ps, LAMBDA p : ~validate_tag_path(p))
validate_tag_paths(ps) == <<InvalidPaths(ps) = <<>>, InvalidPaths(ps)>>
validate_write_data(keys) == <<InvalidPaths(keys) = <<>>, InvalidPaths(keys)>>

\* internal_read_tags: PLC.DB.get_tag(tag_path).value raises for a path that is
\* not registered; it reads the cached values only
internal_read_raises(ps) == \E i \in 1..Len(ps) : ps[i] \notin DOMAIN decl

\* internal_write_tags, lines 28-30: write_tag(tag_path, value, False) for each key
\* in turn; write_tag raises ValueError at the first path that is not registered
FirstBad(keys) ==
    IF \E i \in 1..Len(keys) : keys[i] \notin DOMAIN decl
    THEN MinOf({i \in 1..Len(keys) : keys[i] \notin DOMAIN decl})
    ELSE Len(keys) + 1
StagedBy(keys) == {keys[i] : i \in 1..(FirstBad(keys) - 1)}

ApiAnswer(t, kind, unknown, size, code) ==
    [n |-> api.n + 1, who |-> t, kind |-> kind, unknown |-> unknown, size |-> size,
     code |-> code]

\* the part of a request after its checks: internal_read_tags for `reads`, then the
\* staging loop of internal_write_tags for `keys`; the flush follows
ApiExecute(t, kind, unknown, size, reads, keys) ==
    IF internal_read_raises(reads)
    THEN /\ api' = ApiAnswer(t, kind, unknown, size, 400)
         /\ UNCHANGED <<pending, late, pc>>
    ELSE IF keys = <<>>
    THEN /\ api' = ApiAnswer(t, kind, unknown, size, 200)
         /\ UNCHANGED <<pending, late, pc>>
    ELSE /\ pending' = [p \in DOMAIN pending |->
                          IF p \in StagedBy(keys) THEN ApiValue(p) ELSE pending[p]]
         /\ late' = [u \in Threads |->
                       IF u # t /\ pc[u] \in FlushPcs
                       THEN [p \in Paths |->
                               IF p \in StagedBy(keys) THEN ApiValue(p) ELSE late[u][p]]
                       ELSE late[u]]
         /\ IF FirstBad(keys) <= Len(keys)
            THEN /\ api' = ApiAnswer(t, kind, unknown, size, 400)
                 /\ UNCHANGED pc
            ELSE /\ api' = ApiAnswer(t, kind, unknown, size, 0)
                 /\ pc' = [pc EXCEPT ![t] = "api_flush"]

ApiReject(t, kind, unknown, size, code) ==
    /\ api' = ApiAnswer(t, kind, unknown, size, code)
    /\ UNCHANGED <<pending, late, pc>>

NamesUnknown(ps) == \E i \in 1..Len(ps) : ps[i] = UnknownPath

\* routes/plc.py 37-72: GET /api/plc/read
Api_Read(t, r) ==
    /\ pc[t] = "idle"
    /\ api.n < MaxReq
    /\ r # <<>>
    /\ IF ~validate_tag_paths(r)[1]
       THEN ApiReject(t, "read", NamesUnknown(r), Len(r), 400)
       ELSE IF Len(r) > MAX_BATCH_SIZE
       THEN ApiReject(t, "read", NamesUnknown(r), Len(r), 413)
       ELSE ApiExecute(t, "read", NamesUnknown(r), Len(r), r, <<>>)
    /\ UNCHANGED <<st, sess, mon, sw, mode, tags, decl, plc, value, monValue, queue, fl,
                   wi, lastWritten, lastIO, budget>>

\* routes/plc.py 75-114: POST /api/plc/write, up to the call of write_pending_tags
Api_Write(t, w) ==
    /\ pc[t] = "idle"
    /\ api.n < MaxReq
    /\ w # {}
    /\ LET keys == KeysOf(w)
       IN  IF ~validate_write_data(keys)[1]
           THEN ApiReject(t, "write", NamesUnknown(keys), Len(keys), 400)
           ELSE IF Len(keys) > MAX_BATCH_SIZE
           THEN ApiReject(t, "write", NamesUnknown(keys), Len(keys), 413)
           ELSE ApiExecute(t, "write", NamesUnknown(keys), Len(keys), <<>>, keys)
    /\ UNCHANGED <<st, sess, mon, sw, mode, tags, decl, plc, value, monValue, queue, fl,
                   wi, lastWritten, lastIO, budget>>

\* routes/plc.py 117-171: POST /api/plc/batch, up to the call of write_pending_tags
Api_Batch(t, r, w) ==
    /\ pc[t] = "idle"
    /\ api.n < MaxReq
    /\ LET keys == KeysOf(w)
           unknown == NamesUnknown(r) \/ NamesUnknown(keys)
           total_operations == Len(r) + Len(keys)
       IN  IF ~validate_tag_paths(r)[1]
           THEN ApiReject(t, "batch", unknown, total_operations, 400)
           ELSE IF ~validate_write_data(keys)[1]
           THEN ApiReject(t, "batch", unknown, total_operations, 400)
           ELSE IF total_operations > MAX_BATCH_SIZE
           THEN ApiReject(t, "batch", unknown, total_operations, 413)
           ELSE ApiExecute(t, "batch", unknown, total_operations, r, keys)
    /\ UNCHANGED <<st, sess, mon, sw, mode, tags, decl, plc, value, monValue, queue, fl,
                   wi, lastWritten, lastIO, budget>>

\* internal_write_tags, line 31: results = PLC.DB.write_pending_tags()
Api_Flush(t) == WPT_CollectFrom(t, "api_flush")

InitApi ==
    /\ InitFlush("conc")

\* the thread serving the requests
ApiThreads == {"f1"}

ApiNext ==
    \/ \E t \in ApiThreads : \E r \in ReadLists : Api_Read(t, r)
    \/ \E t \in ApiThreads : \E w \in WriteDicts : Api_Write(t, w)
    \/ \E t \in ApiThreads : \E r \in ReadLists : \E w \in WriteDicts : Api_Batch(t, r, w)
    \/ \E t \in ApiThreads : Api_Flush(t)
    \/ \E t \in ApiThreads : WPT_Read(t)
    \/ \E t \in ApiThreads : WPT_Get(t)
    \/ \E t \in ApiThreads : WPT_Clear(t)
    \/ \E t \in ApiThreads : WPT_Write(t)
    \/ \E t \in ApiThreads : WPT_Return(t)

SpecApi == InitApi /\ [][ApiNext]_vars

\* C17: a read, write or batch request that names an unregistered tag path is
\* answered 400, and one within the registered paths that exceeds MAX_BATCH_SIZE is
\* answered 413, in the step that receives it: nothing is staged, the serving thread
\* is back idle (it enters no read or write of a data block), and the PLC's memory
\* and the tags are as before.
C17_RejectedRequestHasNoEffect ==
    [][ ( /\ api'.n = api.n + 1
          /\ api'.unknown \/ api'.size > MAX_BATCH_SIZE )
        => /\ api'.code = IF api'.unknown THEN 400 ELSE 413
           /\ pc'[api'.who] = "idle"
           /\ UNCHANGED <<pending, plc, value, monValue, queue, fl, lastWritten>> ]_vars

\* reached: a write of MAX_BATCH_SIZE + 1 registered tags answered 413 after an
\* earlier write had been accepted and flushed
C17_Witness ==
    /\ api.n = 2
    /\ api.kind = "write"
    /\ ~api.unknown
    /\ api.size = MAX_BATCH_SIZE + 1
    /\ api.code = 413
    /\ \E p \in Paths : plc[1][0] # 2 /\ IsNone(pending[p])

-----------------------------------------------------------------------------
(* PLCClient: connect, disconnect, check_connection, reconnect, monitor_task and
   the locking of the I/O operations *)

\* threading.RLock.acquire(timeout=...) taken whoever holds the lock
acquire_unguarded(holder, t) == TRUE

\* self.client_lock.acquire(timeout=self.lock_timeout): succeeds when the lock is
\* free or already held by the calling thread
client_lock_acquire(holder, t) == holder \in {"none", t}

\* a return path that leaves without releasing
release_missing(holder, t) == holder

\* finally: self.client_lock.release() by the thread that holds the lock
client_lock_release(holder, t) == IF holder = t THEN "none" ELSE holder

\* a second name for the unguarded acquire
acquire_unshared(holder, t) == TRUE

\* PLCClient.connect_lock.acquire(timeout=3): one lock for all instances
connect_lock_acquire(holder, t) == holder \in {"none", t}

\* a connect that never gets through
connect_never(reachable) == "broken"

\* snap7 Client() followed by client.connect(ip, rack, slot, port): the client that
\* is left in self.client
snap7_connect(reachable) == IF reachable THEN "open" ELSE "broken"

\* wait_for_connection's test: self.connected and self.client
Ready(s) == sess.connected[s] /\ sess.client[s] # "none"

\* the session is connected over a live client
Up(s) == sess.connected[s] /\ sess.client[s] = "open"

SessFrame ==
    UNCHANGED <<tags, decl, plc, value, pending, monValue, queue, pc, fl, wi,
                lastWritten, late, lastIO, sw, mon, st, api, mode>>

\* where connect() returns to: __init__ goes on to start_monitor(), whose thread
\* begins with the loop test; reconnect() returns into monitor_task, which sleeps
AfterConnect(s) == IF sess.mon[s] THEN "sleep" ELSE "cc_acq"

\* connect() line 98: the class-level lock is acquired
C_Acquire(s) ==
    /\ sess.sup[s] = "c_acq"
    /\ connect_lock_acquire(sess.connect_lock, SupOf(s))
    /\ sess' = [sess EXCEPT !.connect_lock = SupOf(s), !.sup[s] = "c_crit"]
    /\ SessFrame /\ UNCHANGED budget

\* connect() lines 98-100: the acquire timed out, return False
C_Timeout(s) ==
    /\ sess.sup[s] = "c_acq"
    /\ ~connect_lock_acquire(sess.connect_lock, SupOf(s))
    /\ sess' = [sess EXCEPT !.sup[s] = AfterConnect(s), !.mon[s] = TRUE]
    /\ SessFrame /\ UNCHANGED budget

\* connect() lines 102-128: nothing to do when already connected; otherwise a new
\* client is created and connected, self.connected follows get_connected() or
\* becomes False on an exception; the lock is released
C_Do(s) ==
    /\ sess.sup[s] = "c_crit"
    /\ LET c == snap7_connect(sess.reachable)
       IN  sess' = IF Ready(s)
                   THEN [sess EXCEPT !.connect_lock = "none", !.sup[s] = AfterConnect(s),
                                     !.mon[s] = TRUE]
                   ELSE [sess EXCEPT !.connect_lock = "none", !.sup[s] = AfterConnect(s),
                                     !.mon[s] = TRUE,
                                     !.client[s] = c, !.connected[s] = (c = "open")]
    /\ SessFrame /\ UNCHANGED budget

\* check_connection() line 151: the instance lock is acquired
CC_Acquire(s) ==
    /\ sess.sup[s] = "cc_acq"
    /\ ~sess.stop[s]
    /\ client_lock_acquire(sess.client_lock[s], SupOf(s))
    /\ sess' = [sess EXCEPT !.client_lock[s] = SupOf(s), !.sup[s] = "cc_crit"]
    /\ SessFrame /\ UNCHANGED budget

\* check_connection() lines 151-153: the acquire timed out, return False;
\* monitor_task then calls reconnect()
CC_Timeout(s) ==
    /\ sess.sup[s] = "cc_acq"
    /\ ~sess.stop[s]
    /\ ~client_lock_acquire(sess.client_lock[s], SupOf(s))
    /\ sess' = [sess EXCEPT !.sup[s] = "d_acq"]
    /\ SessFrame /\ UNCHANGED budget

\* check_connection() lines 155-184: no client, or the probe db_read raised:
\* connected = False and monitor_task goes on to reconnect(); the probe succeeded:
\* connected = True and monitor_task sleeps; the lock is released
CC_Probe(s) ==
    /\ sess.sup[s] = "cc_crit"
    /\ LET ok == sess.client[s] = "open"
       IN  sess' = [sess EXCEPT !.client_lock[s] = "none",
                                !.connected[s] = ok,
                                !.lost = @ \/ (sess.connected[s] /\ ~ok),
                                !.sup[s] = IF ok THEN "sleep" ELSE "d_acq"]
    /\ SessFrame /\ UNCHANGED budget

\* monitor_task line 200: time.sleep(self.check_interval) is over, back to the
\* loop test
Tick(s) ==
    /\ sess.sup[s] = "sleep"
    /\ sess' = [sess EXCEPT !.sup[s] = "cc_acq"]
    /\ SessFrame /\ UNCHANGED budget

\* monitor_task line 197: while not self.stop_monitor ends the thread
Sup_Exit(s) ==
    /\ sess.sup[s] = "cc_acq"
    /\ sess.stop[s]
    /\ sess' = [sess EXCEPT !.sup[s] = "exited"]
    /\ SessFrame /\ UNCHANGED budget

\* reconnect() -> disconnect() line 133: the class-level lock is acquired
D_Acquire(s) ==
    /\ sess.sup[s] = "d_acq"
    /\ connect_lock_acquire(sess.connect_lock, SupOf(s))
    /\ sess' = [sess EXCEPT !.connect_lock = SupOf(s), !.sup[s] = "d_crit"]
    /\ SessFrame /\ UNCHANGED budget

\* disconnect() lines 133-135: the acquire timed out, return; reconnect() goes on
\* to connect()
D_Timeout(s) ==
    /\ sess.sup[s] = "d_acq"
    /\ ~connect_lock_acquire(sess.connect_lock, SupOf(s))
    /\ sess' = [sess EXCEPT !.sup[s] = "c_acq"]
    /\ SessFrame /\ UNCHANGED budget

\* disconnect() lines 137-147: the client is disconnected, destroyed and dropped
\* and connected = False, unless there is no client or client.disconnect() raised;
\* the lock is released and reconnect() goes on to connect()
D_Do(s) ==
    /\ sess.sup[s] = "d_crit"
    /\ \E raised \in BOOLEAN :
         /\ raised => sess.client[s] = "broken"
         /\ sess' = IF sess.client[s] = "none" \/ raised
                    THEN [sess EXCEPT !.connect_lock = "none", !.sup[s] = "c_acq"]
                    ELSE [sess EXCEPT !.connect_lock = "none", !.sup[s] = "c_acq",
                                      !.client[s] = "none", !.connected[s] = FALSE]
    /\ SessFrame /\ UNCHANGED budget

\* an I/O operation that goes ahead without the lock
IO_ProceedUnlocked(t) ==
    /\ sess.io[t] = "acq"
    /\ ~client_lock_acquire(sess.client_lock[SessOf(t)], t)
    /\ sess' = [sess EXCEPT !.io[t] = "crit"]
    /\ SessFrame /\ UNCHANGED budget

\* readDB_* / writeDB_*: wait_for_connection found the session ready
IO_Wait(t) ==
    /\ sess.io[t] = "idle"
    /\ Ready(SessOf(t))
    /\ sess' = [sess EXCEPT !.io[t] = "acq", !.res[t] = "none"]
    /\ SessFrame /\ UNCHANGED budget

\* wait_for_connection timed out: the operation returns its failure result
IO_NotConnected(t) ==
    /\ sess.io[t] = "idle"
    /\ ~Ready(SessOf(t))
    /\ sess' = [sess EXCEPT !.res[t] = "not_connected"]
    /\ SessFrame /\ UNCHANGED budget

\* self.client_lock.acquire(timeout=self.lock_timeout) succeeded
IO_Acquire(t) ==
    /\ sess.io[t] = "acq"
    /\ client_lock_acquire(sess.client_lock[SessOf(t)], t)
    /\ sess' = [sess EXCEPT !.io[t] = "crit", !.client_lock[SessOf(t)] = t]
    /\ SessFrame /\ UNCHANGED budget

\* the acquire timed out: the operation logs and returns its failure result
IO_LockTimeout(t) ==
    /\ sess.io[t] = "acq"
    /\ ~client_lock_acquire(sess.client_lock[SessOf(t)], t)
    /\ sess' = [sess EXCEPT !.io[t] = "idle", !.res[t] = "lock_timeout"]
    /\ SessFrame /\ UNCHANGED budget

\* try: self.client.db_read / db_write ... except: failure; finally: release
IO_Do(t) ==
    /\ sess.io[t] = "crit"
    /\ sess' = [sess EXCEPT
                  !.io[t] = "idle",
                  !.res[t] = IF sess.client[SessOf(t)] = "open" THEN "ok" ELSE "s7_error",
                  !.client_lock[SessOf(t)] = client_lock_release(@, t)]
    /\ SessFrame /\ UNCHANGED budget

\* the PLC drops off the network (live clients lose their connection) or comes back
SessEnv ==
    /\ budget.env > 0
    /\ budget' = [budget EXCEPT !.env = @ - 1]
    /\ sess' = [sess EXCEPT
                  !.reachable = ~@,
                  !.client = [s \in Sessions |->
                                IF sess.reachable /\ @[s] = "open" THEN "broken" ELSE @[s]]]
    /\ SessFrame

\* both sessions under construction: __init__ calls connect() and then starts
\* monitor_task
InitSess ==
    InitSweepWith([SessIdle EXCEPT !.sup = [s \in Sessions |-> "c_acq"]])

SessNext ==
    \/ \E s \in Sessions : C_Acquire(s)
    \/ \E s \in Sessions : C_Timeout(s)
    \/ \E s \in Sessions : C_Do(s)
    \/ \E s \in Sessions : CC_Acquire(s)
    \/ \E s \in Sessions : CC_Timeout(s)
    \/ \E s \in Sessions : CC_Probe(s)
    \/ \E s \in Sessions : Tick(s)
    \/ \E s \in Sessions : D_Acquire(s)
    \/ \E s \in Sessions : D_Timeout(s)
    \/ \E s \in Sessions : D_Do(s)
    \/ \E t \in IoThreads : IO_Wait(t)
    \/ \E t \in IoThreads : IO_NotConnected(t)
    \/ \E t \in IoThreads : IO_Acquire(t)
    \/ \E t \in IoThreads : IO_LockTimeout(t)
    \/ \E t \in IoThreads : IO_Do(t)
    \/ SessEnv

SpecSess == InitSess /\ [][SessNext]_vars

\* the threads inside a db_read / db_write on session s
InCall(s) ==
    {t \in IoThreads : SessOf(t) = s /\ sess.io[t] = "crit"}
        \cup (IF sess.sup[s] = "cc_crit" THEN {SupOf(s)} ELSE {})

\* C18: at any time at most one thread is inside a db_read / db_write call on a
\* session's S7 client, whether it was issued by a readDB_* / writeDB_* operation
\* or by check_connection, and that thread is the holder of the session's
\* client_lock, so the other callers wait at the acquire.
C18_SessionSerialisesIO ==
    \A s \in Sessions :
        /\ Cardinality(InCall(s)) <= 1
        /\ \A t \in InCall(s) : sess.client_lock[s] = t

\* reached: the sweep is inside its read on the async session while the session's
\* monitor thread waits at the acquire of check_connection
C18_Witness ==
    /\ sess.io["r"] = "crit"
    /\ sess.sup["async"] = "cc_acq"
    /\ sess.client_lock["async"] = "r"

\* C39: the instance lock of a session is held exactly while an operation is
\* inside its try block: it is free whenever no I/O operation and no
\* check_connection is in progress, the step that ends an operation (with its
\* result or with a failure of the library) hands the lock back, and an operation
\* whose acquire timed out leaves the lock with its holder
C39_InstanceLockDiscipline ==
    /\ [](\A s \in Sessions :
            sess.client_lock[s] = "none" <=> InCall(s) = {})
    /\ [][\A t \in IoThreads :
            /\ (sess.io[t] = "crit" /\ sess'.io[t] # "crit")
                 => /\ sess.client_lock[SessOf(t)] = t
                    /\ sess'.client_lock[SessOf(t)] = "none"
                    /\ sess'.res[t] \in {"ok", "s7_error"}
            /\ (sess.io[t] = "acq" /\ sess'.io[t] = "idle")
                 => sess'.client_lock = sess.client_lock]_vars

\* reached: the sweep's read ended with a failure of the library and the write
\* timed out at the lock while check_connection held it; both locks are free
\* again and nothing is in progress
C39_Witness ==
    /\ sess.res["r"] = "s7_error"
    /\ sess.res["w"] = "lock_timeout"
    /\ \A t \in IoThreads : sess.io[t] = "idle"
    /\ \A s \in Sessions : sess.client_lock[s] = "none" /\ InCall(s) = {}

\* C37: a thread that is inside the db_read / db_write of an I/O operation (past
\* wait_for_connection, holding the instance lock) finds the session's client in
\* place: no disconnect() has set it to None and destroyed it meanwhile
C37_ClientAliveDuringIO ==
    \A t \in IoThreads :
      sess.io[t] = "crit" => sess.client[SessOf(t)] # "none"

\* C19: an I/O operation whose client_lock.acquire times out (the lock is held by
\* another thread) returns its failure result in that step: it never enters the
\* db_read / db_write, and PLC memory, the session's connected flag, its client
\* and the lock are unchanged; and a thread at the acquire can always take a step,
\* whoever holds the lock and however long.
C19_LockTimeoutFailsClosed ==
    /\ [](\A t \in IoThreads :
            sess.io[t] = "acq" => ENABLED (IO_Acquire(t) \/ IO_LockTimeout(t)))
    /\ [][\A t \in IoThreads :
            ( /\ sess.io[t] = "acq"
              /\ ~client_lock_acquire(sess.client_lock[SessOf(t)], t)
              /\ sess'.io[t] # "acq" )
            => /\ sess'.io[t] = "idle"
               /\ sess'.res[t] = "lock_timeout"
               /\ plc' = plc
               /\ sess'.connected = sess.connected
               /\ sess'.client = sess.client
               /\ sess'.client_lock = sess.client_lock]_vars

\* reached: the write through the sync session timed out at the lock, which the
\* session's monitor thread still holds, and the session is still connected
C19_Witness ==
    /\ sess.res["w"] = "lock_timeout"
    /\ sess.io["w"] = "idle"
    /\ sess.client_lock["sync"] = "m_sync"
    /\ sess.connected["sync"]

\* C20: at any time at most one session, sync or async, is inside the critical
\* section of connect() that creates the client and connects it, and it holds
\* PLCClient.connect_lock; this covers the constructor's connect() and the
\* connect() of every reconnect().
C20_ConnectIsMutuallyExclusive ==
    /\ Cardinality({s \in Sessions : sess.sup[s] = "c_crit"}) <= 1
    /\ \A s \in Sessions : sess.sup[s] = "c_crit" => sess.connect_lock = SupOf(s)

\* reached: the sync session is reconnecting inside connect() after it had lost its
\* connection, while the async session waits at the acquire of its own connect()
C20_Witness ==
    /\ sess.sup["sync"] = "c_crit"
    /\ sess.sup["async"] = "c_acq"
    /\ sess.lost
    /\ sess.client["sync"] = "none"

-----------------------------------------------------------------------------
(* Loss and recovery of the async session under the read sweep *)

\* one data block of read_all_tags through _plc_client_async.readDB_Byte:
\* wait_for_connection gives up on a session that is not ready; otherwise the read
\* takes the client_lock (waiting while check_connection holds it), and db_read
\* succeeds on a live client and raises on a lost one
RAT_GroupSess(t) ==
    LET s == SessOf(t)
    IN  /\ Ready(s) => client_lock_acquire(sess.client_lock[s], t)
        /\ RAT_GroupOut(t, IF ~Ready(s) THEN "not_connected"
                           ELSE IF sess.client[s] = "open" THEN "ok" ELSE "s7_error")

\* monitor_task of session s, from the constructor's connect() on
Supervise(s) ==
    \/ C_Acquire(s)
    \/ C_Do(s)
    \/ CC_Acquire(s)
    \/ CC_Probe(s)
    \/ Tick(s)
    \/ D_Acquire(s)
    \/ D_Do(s)

\* the async session under construction; the sync session is not used
InitRecover ==
    InitSweepWith([SessIdle EXCEPT !.sup["async"] = "c_acq"])

RecoverNext ==
    \/ Supervise("async")
    \/ \E t \in Sweepers : RAT_Start(t)
    \/ \E t \in Sweepers : RAT_GroupSess(t)
    \/ \E t \in Sweepers : RAT_Return(t)
    \/ SessEnv

\* the monitor thread and the scheduler's sweep job keep running; a read that waits
\* for the client_lock gets it, since check_connection holds it only for one probe
SpecRecover ==
    /\ InitRecover
    /\ [][RecoverNext]_vars
    /\ WF_vars(Supervise("async"))
    /\ WF_vars(\E t \in Sweepers : RAT_Start(t) \/ RAT_Return(t))
    /\ SF_vars(\E t \in Sweepers : RAT_GroupSess(t))

\* a sweep has finished with a value for every tag over a connected session
SweepLive ==
    /\ pc["r"] = "done"
    /\ Up("async")
    /\ \A p \in DOMAIN decl : sw.results[p] \notin {None, Unset}

-----------------------------------------------------------------------------
(* Strings through the flush and the sweep *)

\* the state after initialize for a registry ts / dc over PLC memory mem, sessions
\* se and scenario budgets bud
InitRegistry(m, ts, dc, mem, se, bud) ==
    /\ mode = m
    /\ tags = ts
    /\ decl = dc
    /\ plc = mem
    /\ value = [p \in DOMAIN dc |-> None]
    /\ pending = [p \in DOMAIN dc |-> None]
    /\ monValue = [p \in DOMAIN dc |-> None]
    /\ queue = [p \in DOMAIN dc |-> <<>>]
    /\ pc = [t \in AllThreads |-> "idle"]
    /\ sw = SwIdle
    /\ st = StIdle
    /\ sess = se
    /\ api = ApiIdle
    /\ mon = MonIdle
    /\ fl = [t \in Threads |-> FlIdle]
    /\ wi = [t \in Threads |-> WiIdle]
    /\ lastWritten = [p \in DOMAIN dc |-> None]
    /\ late = [t \in Threads |-> [p \in Paths |-> None]]
    /\ lastIO = [t \in Threads |-> NoIO]
    /\ budget = bud

\* the registry of the flush scenarios with b1 and n1 declared as strings of size
\* StrSize behind the bool b0 in data block 1
CodecDecl ==
    [p \in Paths |->
        CASE p = "b0" -> [db |-> 1, off |-> 0, size |-> 1, type |-> "bool", bit |-> 0]
          [] p = "b1" -> [db |-> 1, off |-> 1, size |-> StrSize, type |-> "string", bit |-> 0]
          [] p = "n1" -> [db |-> 1, off |-> StrSize + 3, size |-> StrSize, type |-> "string",
                          bit |-> 0]
          [] p = "c0" -> [db |-> 2, off |-> 0, size |-> 1, type |-> "bool", bit |-> 0]]

CodecDBLen(db) == IF db = 1 THEN 2 * StrSize + 5 ELSE 1

\* the request thread and the two scheduled jobs of the scenario
CodecThreads == {"f1"}

InitCodec ==
    InitRegistry("seq", FlushTags, CodecDecl,
                 [db \in DBs |-> [o \in 0..(CodecDBLen(db) - 1) |-> 0]],
                 SessIdle, [stage |-> MaxStage, flush |-> MaxFlush, imm |-> 0])

\* no sweep is running / no request is being served: the scenario runs requests
\* and sweeps one after another
SweepIdle == \A t \in Sweepers : pc[t] = "idle"
RequestsIdle == \A t \in Threads : pc[t] = "idle"

CodecNext ==
    \/ \E t \in CodecThreads : \E p \in TagsOfDb(1) : \E v \in StageValues(p) :
          SweepIdle /\ Stage(t, p, v)
    \/ \E t \in CodecThreads : SweepIdle /\ WPT_Collect(t)
    \/ \E t \in CodecThreads : WPT_Read(t)
    \/ \E t \in CodecThreads : WPT_Get(t)
    \/ \E t \in CodecThreads : WPT_Clear(t)
    \/ \E t \in CodecThreads : WPT_Write(t)
    \/ \E t \in CodecThreads : WPT_Return(t)
    \/ \E t \in Sweepers : RequestsIdle /\ RAT_Start(t)
    \/ \E t \in Sweepers : RAT_Group(t)
    \/ \E t \in Sweepers : RAT_Return(t)

SpecCodec == InitCodec /\ [][CodecNext]_vars

\* p is a string tag whose last written value is a str that GBK encodes in at most
\* the declared size
FitsString(p) ==
    /\ decl[p].type = "string"
    /\ lastWritten[p][1] = "text"
    /\ \A i \in 1..Len(lastWritten[p][2]) : lastWritten[p][2][i] \in {"A", "B", "Zh"}
    /\ Len(gbk_encode(lastWritten[p][2])) <= decl[p].size

\* C21: after a flush has written a string tag of declared size n whose pending
\* string had a GBK encoding of m <= n bytes, the n + 2 bytes at the tag's offset
\* are the header (n, m), the m bytes of the encoding and n - m zero bytes; and a
\* sweep that then reads the tag's data block gives the tag, as value and as
\* result, a str with exactly the characters that were staged.
C21_StringRoundTrip ==
    /\ [](\A p \in DOMAIN decl :
            FitsString(p) =>
                LET d == decl[p]
                    e == gbk_encode(lastWritten[p][2])
                IN  /\ plc[d.db][d.off] = d.size
                    /\ plc[d.db][d.off + 1] = Len(e)
                    /\ \A i \in 1..d.size :
                         plc[d.db][d.off + 1 + i] = IF i <= Len(e) THEN e[i] ELSE 0)
    /\ [][\A t \in Sweepers :
            ( /\ pc[t] = "sweep"
              /\ sw' # sw
              /\ Head(sw.groups) \notin sw'.failedReads )
            => \A p \in TagsOfDb(Head(sw.groups)) :
                 FitsString(p) =>
                     /\ value'[p][1] = "str"
                     /\ StrChars(value'[p]) = lastWritten[p][2]
                     /\ sw'.results[p] = value'[p]]_vars

\* reached: b1 was written as the Chinese character and n1, which had held it
\* before, as "A"; the sweep has read both back
C21_Witness ==
    /\ lastWritten["b1"] = PyText(<<"Zh">>)
    /\ lastWritten["n1"] = PyText(<<"A">>)
    /\ plc[1][StrSize + 3 + 3] = 0
    /\ pc["r"] = "done"
    /\ value["b1"] = PyStr(<<214, 208>>)
    /\ value["n1"] = PyStr(<<65>>)
    /\ sw.results["b1"] = value["b1"]

\* the value can be patched into modified_data for a tag declared d
Encodable(d, v) ==
    CASE d.type = "bool" -> TRUE
      [] d.type = "string" -> v[1] \in {"str", "text"} /\ StrEncodable(v)
      [] OTHER -> IntEncodable(v)

\* C23: when a flush ends, in every data block whose read and write did not fail,
\* each tag that was pending with a value that cannot be encoded is reported False
\* and still holds that pending value, and each other tag that was pending is
\* reported True, is no longer pending and has been written to the PLC.
C23_EncodeFailureIsIsolated ==
    \A t \in CodecThreads :
        pc[t] = "done" =>
            \A p \in DOMAIN decl :
                ( /\ ~IsNone(fl[t].pre[p])
                  /\ fl[t].wr[decl[p].db] \notin {"read_failed", "write_failed"} )
                => IF Encodable(decl[p], fl[t].pre[p])
                   THEN /\ fl[t].results[p] = "True"
                        /\ IsNone(pending[p])
                        /\ lastWritten[p] = fl[t].enc[p]
                        /\ ~IsNone(fl[t].enc[p])
                   ELSE /\ fl[t].results[p] = "False"
                        /\ pending[p] = fl[t].pre[p]

\* C35: the bytes a flush has written at a string tag's address are the buffer
\* made from that tag's own pending value: a flush that patched a string tag and
\* wrote the block did so with a value that could be encoded, and the block holds
\* that value's header and bytes at the tag's address
C35_StringPatchIsOwnValue ==
    \A t \in CodecThreads : \A p \in DOMAIN decl :
      ( /\ lastIO[t].kind = "flush"
        /\ p \in lastIO[t].patched
        /\ decl[p].type = "string" )
      => /\ StrEncodable(lastWritten[p])
         /\ LET d == decl[p]
                own == StringBuffer(d.size, TruncateGbk(StrBytes(lastWritten[p]), d.size))
            IN  \A i \in 1..Len(own) :
                   lastIO[t].data[d.off - lastIO[t].start + i - 1] = own[i]

-----------------------------------------------------------------------------
(* Sweeps over a data block that holds tags whose decoding fails *)

\* the string s, an int n declared with size 1 (get_int raises on its one byte)
\* and the bool b, all in data block 1
DecodeTags == <<"s", "n", "b">>
DecodeDecl ==
    [p \in SweepPaths |->
        CASE p = "s" -> [db |-> 1, off |-> 0, size |-> 2, type |-> "string", bit |-> 0]
          [] p = "n" -> [db |-> 1, off |-> 4, size |-> 1, type |-> "int", bit |-> 0]
          [] p = "b" -> [db |-> 1, off |-> 4, size |-> 1, type |-> "bool", bit |-> 0]]

InitDecode ==
    InitRegistry("seq", DecodeTags, DecodeDecl,
                 [db \in DBs |->
                    IF db = 1 THEN [o \in 0..4 |-> CASE o = 0 -> 2 [] o = 1 -> 2
                                                     [] o \in {2, 3} -> 65 [] OTHER -> 0]
                    ELSE [o \in 0..(SweepDBLen(db) - 1) |-> 0]],
                 SessIdle, [stage |-> 0, flush |-> 0, imm |-> 0, env |-> MaxEnv])

SpecDecode == InitDecode /\ [][SweepNext]_vars

\* C22: in a sweep, when the read of a data block succeeded, every tag of the block
\* gets a result, and every tag whose own decoding did not fail gets its decoded
\* value (not None) as current value and as result, whatever happened to the
\* decoding of the other tags of the block.
C22_DecodeFailureDoesNotAbortBlock ==
    [][\A t \in Sweepers :
         ( /\ pc[t] = "sweep"
           /\ sw' # sw
           /\ Head(sw.groups) \notin sw'.failedReads )
         => LET db == Head(sw.groups)
                grp == GroupOf(tags, db)
                rng == calculate_read_range(grp)
                data == DbRead(db, rng[1], rng[2] - rng[1] + 1)
            IN  \A p \in TagsOfDb(db) :
                  /\ sw'.results[p] # Unset
                  /\ ~DecodeFails(decl[p], data, decl[p].off - rng[1]) =>
                       /\ value'[p] = DecodeValue(decl[p], data, decl[p].off - rng[1])
                       /\ value'[p] # None
                       /\ sw'.results[p] = value'[p]]_vars

\* reached: a sweep in which neither the string nor the int could be decoded and
\* the bool behind them was read as True
C22_Witness ==
    /\ pc["r"] = "done"
    /\ sw.failedReads = {}
    /\ sw.decodeFailed = {"s", "n"}
    /\ value["b"] = PyBool(TRUE)
    /\ sw.results["b"] = PyBool(TRUE)
    /\ sw.results["n"] = None

\* C24: a probe that ends sets the session's connected flag to whether the probe
\* succeeded, and monitor_task enters reconnect() only from its sleep, that is on
\* the tick after the one in which a probe failed.
C24_ReconnectOnNextTick ==
    [][\A s \in Sessions :
         /\ (sess.sup[s] = "cc_crit" /\ sess'.sup[s] # "cc_crit")
              => sess'.connected[s] = (sess.client[s] = "open")
         /\ (sess'.sup[s] = "d_acq" /\ sess.sup[s] # "d_acq")
              => sess.sup[s] = "sleep"]_vars

-----------------------------------------------------------------------------
(* heart_task and writeDB_NegateBit on the sync session, next to write_tag(
   immediate=True) on the same session *)

\* calls of writeDB_NegateBit by the heartbeat thread in one behaviour
MaxBeat == 2

\* the tag declared at the heartbeat address (db_number, byte_offset, bit_index)
HeartTag == "b0"

\* a guard that raises when the read succeeded
raise_if_read_ok(res) == res

\* writeDB_NegateBit lines 364-366: if not res: raise
raise_if_read_failed(res) == ~res

\* the outcomes open to an I/O operation of the heartbeat thread: while the writer
\* is inside writeDB_Bit it holds the session's client_lock
HeartOutcomes ==
    IF \E t \in Writers : pc[t] = "wbit" THEN {"not_connected", "lock_timeout"}
    ELSE IOOutcomes

HeartFrame ==
    UNCHANGED <<tags, decl, value, pending, monValue, queue, pc, fl, wi,
                lastWritten, late, lastIO, sw, mon, st, api, mode>>

\* heart_task: the sleep is over and writeDB_NegateBit is called; its own
\* wait_for_connection lets it through or returns False
HB_Call ==
    /\ sess.hb.pc = "sleep"
    /\ budget.beat > 0
    /\ budget' = [budget EXCEPT !.beat = @ - 1]
    /\ \E ready \in BOOLEAN :
         sess' = [sess EXCEPT !.hb =
                    IF ready
                    THEN [pc |-> "read", bit |-> None, rd |-> "none", wr |-> <<>>,
                          ret |-> "none"]
                    ELSE [pc |-> "sleep", bit |-> None, rd |-> "none", wr |-> <<>>,
                          ret |-> "False"]]
    /\ HeartFrame /\ UNCHANGED plc

\* lines 363-366: readDB_Bit and the test of its result
HB_Read ==
    /\ sess.hb.pc = "read"
    /\ \E out \in HeartOutcomes :
         LET d == decl[HeartTag]
             res == readDB_Bit(out, plc[d.db][d.off], d.bit)
         IN  sess' = [sess EXCEPT !.hb =
                        IF raise_if_read_failed(res[1])
                        THEN [@ EXCEPT !.pc = "sleep", !.ret = "False",
                                       !.rd = IF res[1] THEN "ok" ELSE "failed"]
                        ELSE [@ EXCEPT !.pc = "write", !.bit = res[2],
                                       !.rd = IF res[1] THEN "ok" ELSE "failed"]]
    /\ HeartFrame /\ UNCHANGED <<plc, budget>>

\* lines 367-369: writeDB_Bit(db_num, byte_offset, bit_offset, not bitValue), which
\* reads the byte again, sets the bit and writes the byte; its result is returned
HB_Write ==
    /\ sess.hb.pc = "write"
    /\ \E out \in HeartOutcomes :
         LET d == decl[HeartTag]
             v == PyBool(~Truthy(sess.hb.bit))
             boolData == util_set_bool(plc[d.db][d.off], d.bit, v)
             result == writeDB_Bit(out)
         IN  /\ plc' = IF result THEN DbWrite(d.db, d.off, [j \in {0} |-> boolData]) ELSE plc
             /\ sess' = [sess EXCEPT !.hb =
                           [@ EXCEPT !.pc = "sleep",
                                     !.wr = Append(@, result),
                                     !.ret = IF result THEN "True" ELSE "False"]]
    /\ HeartFrame /\ UNCHANGED budget

InitHeart ==
    InitRegistry("conc", FlushTags, FlushDecl,
                 [db \in DBs |-> [o \in 0..(DBLen(db) - 1) |-> 0]],
                 [SessIdle EXCEPT !.hb.pc = "sleep"],
                 [stage |-> 0, flush |-> 0, imm |-> MaxImm, beat |-> MaxBeat])

HeartNext ==
    \/ HB_Call
    \/ HB_Read
    \/ HB_Write
    \/ \E t \in Writers : \E p \in {"b0", "b1"} : \E v \in StageValues(p) : WI_BitRead(t, p, v)
    \/ \E t \in Writers : WI_BitWrite(t)

SpecHeart == InitHeart /\ [][HeartNext]_vars

\* the heartbeat bit in PLC memory
HeartBit(mem) == get_bool(mem[decl[HeartTag].db][decl[HeartTag].off], decl[HeartTag].bit)

\* C25: between the heartbeat's read of the bit and its write no operation of
\* another thread changes PLC memory through the session, and the write stores
\* the negation of the value the bit has when the write is made.
C25_HeartbeatFlipIsAtomic ==
    [][ /\ (sess.hb.pc = "write" /\ sess'.hb.pc = "write") => plc' = plc
        /\ ( /\ sess.hb.pc = "write"
             /\ sess'.hb.pc = "sleep"
             /\ sess'.hb.ret = "True" )
           => HeartBit(plc') # HeartBit(plc) ]_vars

\* C26: when a writeDB_NegateBit call has returned: if its read of the bit failed
\* (or it never got to the read) it made no writeDB_Bit call and returned False;
\* if the read succeeded it made exactly one writeDB_Bit call and returned that
\* call's result; and the successful write stored the negation of the bit read.
C26_NegateWritesOnlyAfterRead ==
    /\ [](sess.hb.pc = "sleep" /\ sess.hb.ret # "none" =>
            IF sess.hb.rd = "ok"
            THEN /\ Len(sess.hb.wr) = 1
                 /\ sess.hb.ret = (IF sess.hb.wr[1] THEN "True" ELSE "False")
            ELSE /\ sess.hb.wr = <<>>
                 /\ sess.hb.ret = "False")
    /\ [][( /\ sess.hb.pc = "write"
            /\ sess'.hb.pc = "sleep"
            /\ sess'.hb.ret = "True" )
          => HeartBit(plc') = PyBool(~Truthy(sess.hb.bit))]_vars

\* reached: one heartbeat whose read failed and wrote nothing, and then one that
\* read False and wrote True
C26_Witness ==
    /\ budget.beat = 0
    /\ sess.hb.pc = "sleep"
    /\ sess.hb.rd = "ok"
    /\ sess.hb.bit = PyBool(FALSE)
    /\ sess.hb.wr = <<TRUE>>
    /\ sess.hb.ret = "True"
    /\ HeartBit(plc) = PyBool(TRUE)

-----------------------------------------------------------------------------
(* PLCClient shutdown: stop_monitor_thread, stop_heart_thread and disconnect, as
   __del__ and the finally block of the main program call them, next to
   monitor_task of the same session *)

\* the thread that shuts sessions down
Closer == "main"

\* stop_monitor_thread lines 220-222: the flag is set; the join follows when
\* monitor_thread is alive
SD_Request(s) ==
    /\ sess.shut[s] = "none"
    /\ sess.mon[s]
    /\ \A o \in Sessions : sess.shut[o] \in {"none", "done"}
    /\ sess' = [sess EXCEPT !.stop[s] = TRUE,
                            !.shut[s] = IF sess.sup[s] = "exited" THEN "d_acq" ELSE "join"]
    /\ SessFrame /\ UNCHANGED budget

\* stop_monitor_thread line 224: join(timeout=5) returns when the thread has ended
\* or when the five seconds are over, whatever the thread is doing;
\* stop_heart_thread finds no heart thread on a session built without heartbeat
SD_Join(s) ==
    /\ sess.shut[s] = "join"
    /\ sess' = [sess EXCEPT !.shut[s] = "d_acq"]
    /\ SessFrame /\ UNCHANGED budget

\* disconnect() line 133, called by the closing thread
SD_DAcquire(s) ==
    /\ sess.shut[s] = "d_acq"
    /\ connect_lock_acquire(sess.connect_lock, Closer)
    /\ sess' = [sess EXCEPT !.connect_lock = Closer, !.shut[s] = "d_crit"]
    /\ SessFrame /\ UNCHANGED budget

\* disconnect() lines 133-135: the acquire timed out, return without closing
SD_DTimeout(s) ==
    /\ sess.shut[s] = "d_acq"
    /\ ~connect_lock_acquire(sess.connect_lock, Closer)
    /\ sess' = [sess EXCEPT !.shut[s] = "done"]
    /\ SessFrame /\ UNCHANGED budget

\* disconnect() lines 137-147 on the closing thread
SD_DDo(s) ==
    /\ sess.shut[s] = "d_crit"
    /\ \E raised \in BOOLEAN :
         /\ raised => sess.client[s] = "broken"
         /\ sess' = IF sess.client[s] = "none" \/ raised
                    THEN [sess EXCEPT !.connect_lock = "none", !.shut[s] = "done"]
                    ELSE [sess EXCEPT !.connect_lock = "none", !.shut[s] = "done",
                                      !.client[s] = "none", !.connected[s] = FALSE]
    /\ SessFrame /\ UNCHANGED budget

ShutdownNext ==
    \/ \E s \in Sessions : C_Acquire(s)
    \/ \E s \in Sessions : C_Timeout(s)
    \/ \E s \in Sessions : C_Do(s)
    \/ \E s \in Sessions : CC_Acquire(s)
    \/ \E s \in Sessions : CC_Probe(s)
    \/ \E s \in Sessions : Tick(s)
    \/ \E s \in Sessions : Sup_Exit(s)
    \/ \E s \in Sessions : D_Acquire(s)
    \/ \E s \in Sessions : D_Timeout(s)
    \/ \E s \in Sessions : D_Do(s)
    \/ \E s \in Sessions : SD_Request(s)
    \/ \E s \in Sessions : SD_Join(s)
    \/ \E s \in Sessions : SD_DAcquire(s)
    \/ \E s \in Sessions : SD_DTimeout(s)
    \/ \E s \in Sessions : SD_DDo(s)
    \/ SessEnv

SpecShutdown == InitSess /\ [][ShutdownNext]_vars

\* C27: once the shutdown of a session has been carried out (stop_monitor_thread,
\* stop_heart_thread and disconnect have returned), its client is closed and the
\* session is never connected again
C27_ShutdownIsTerminal ==
    \A s \in Sessions :
      sess.shut[s] = "done" => sess.client[s] = "none" /\ ~sess.connected[s]


-----------------------------------------------------------------------------
(* VariableMonitor: the consumer thread's life (start_consumer, _event_consumer,
   stop_consumer) next to the read sweep's assignments *)

\* the capacity the queue's length is compared with
QueueCap == 4

\* tags_manager.py 67-69: the monitor is created for every tag, start_consumer()
\* is called only when config_monitor is set
start_consumer(config_monitor) ==
    [running |-> config_monitor, thread |-> IF config_monitor THEN "alive" ELSE "none"]

\* consumer_thread.join(timeout=5.0) gives up while the thread is still alive
join_timeout(thread) == thread = "alive"

\* _event_consumer lines 205-219 on the started consumer thread
Con_Step ==
    /\ mon.thread = "alive"
    /\ Consume

\* _event_consumer line 204: while self._running or not self._event_queue.empty()
\* ends the thread
Con_Exit ==
    /\ mon.thread = "alive"
    /\ ~mon.running
    /\ queue[MonTag] = <<>>
    /\ mon' = [mon EXCEPT !.thread = "ended"]
    /\ UNCHANGED <<st, sess, api, tags, decl, plc, value, pending, monValue, queue, pc, fl,
                   wi, lastWritten, late, lastIO, sw, budget, mode>>

\* stop_consumer lines 244-248: _running = False under the monitor's lock; the
\* join follows only when there is a consumer thread and it is alive
Stop_Request ==
    /\ mon.stopper = "none"
    /\ mon.lock = "none"
    /\ mon' = [mon EXCEPT !.running = FALSE,
                          !.owed = queue[MonTag],
                          !.stopper = IF mon.thread = "alive" THEN "join" ELSE "returned"]
    /\ UNCHANGED <<st, sess, api, tags, decl, plc, value, pending, monValue, queue, pc, fl,
                   wi, lastWritten, late, lastIO, sw, budget, mode>>

\* stop_consumer lines 249-251: join(timeout=5.0) returns when the thread has
\* ended, or after five seconds with the thread still alive (a warning is logged)
Stop_Join ==
    /\ mon.stopper = "join"
    /\ mon.thread = "ended" \/ join_timeout(mon.thread)
    /\ mon' = [mon EXCEPT !.stopper = "returned"]
    /\ UNCHANGED <<st, sess, api, tags, decl, plc, value, pending, monValue, queue, pc, fl,
                   wi, lastWritten, late, lastIO, sw, budget, mode>>

\* create_tag for one bool tag, monitored or not (config_monitor 1 or 0)
InitConsumer ==
    /\ mode = "conc"
    /\ tags = <<MonTag>>
    /\ decl = [p \in {MonTag} |-> MonDecl]
    /\ plc = [db \in DBs |-> [o \in 0..(DBLen(db) - 1) |-> 0]]
    /\ \E cell \in DefaultCells, config_monitor \in BOOLEAN :
         /\ mon = [MonIdle EXCEPT !.cell = cell,
                                  !.running = start_consumer(config_monitor).running,
                                  !.thread = start_consumer(config_monitor).thread]
         /\ monValue = [p \in {MonTag} |-> SqliteToPy(cell)]
    /\ value = [p \in {MonTag} |-> None]
    /\ pending = [p \in {MonTag} |-> None]
    /\ queue = [p \in {MonTag} |-> <<>>]
    /\ pc = [t \in AllThreads |-> "idle"]
    /\ sw = SwIdle
    /\ st = StIdle
    /\ sess = SessIdle
    /\ api = ApiIdle
    /\ fl = [t \in Threads |-> FlIdle]
    /\ wi = [t \in Threads |-> WiIdle]
    /\ lastWritten = [p \in {MonTag} |-> None]
    /\ late = [t \in Threads |-> [p \in Paths |-> None]]
    /\ lastIO = [t \in Threads |-> NoIO]
    /\ budget = [stage |-> 0, flush |-> 0, imm |-> 0]

ConsumerNext ==
    \/ \E t \in Sweepers : \E v \in AssignValues(t) : Asg_Set(t, v)
    \/ \E t \in Sweepers : Asg_Put(t)
    \/ \E t \in Sweepers : Asg_Return(t)
    \/ Con_Step
    \/ Con_Exit
    \/ Stop_Request
    \/ Stop_Join

SpecConsumer == InitConsumer /\ [][ConsumerNext]_vars

\* the events dispatched to a handler so far
DispatchedEvents == {mon.delivered[i].ev : i \in 1..Len(mon.delivered)}

\* C28: when stop_consumer() has returned, every event that was in the queue when
\* it was called has been dispatched to its handlers
C28_StopDrainsQueue ==
    mon.stopper = "returned" =>
      \A i \in 1..Len(mon.owed) : mon.owed[i] \in DispatchedEvents

\* C29: the number of undispatched events of a tag never exceeds the capacity
C29_QueueIsBounded ==
    \A p \in DOMAIN queue : Len(queue[p]) <= QueueCap

-----------------------------------------------------------------------------
(* the two lanes: which PLCClient instance each operation of the tag manager
   calls *)

\* read_tag and write_tag(immediate=True) call self._plc_client_sync; read_all_tags,
\* read_tags and write_pending_tags call self._plc_client_async
ClientOf(op) ==
    CASE op \in {"read_tag", "write_tag"} -> "sync"
      [] op \in {"read_all_tags", "read_tags", "write_pending_tags"} -> "async"
      [] OTHER -> "none"

\* the operation of the tag manager whose PLC read or write thread t is at
IoOpAt(t) ==
    CASE pc[t] \in {"read", "write"} -> "write_pending_tags"
      [] pc[t] = "wbit" -> "write_tag"
      [] OTHER -> "none"

\* thread t is inside internal_write_tags of an accepted request
Serving(t) == api.who = t /\ api.code = 0 /\ pc[t] # "idle"

\* C30: every PLC read or write issued while serving an API request goes through
\* the sync session
C30_LaneDiscipline ==
    \A t \in Threads :
      (Serving(t) /\ IoOpAt(t) # "none") => ClientOf(IoOpAt(t)) = "sync"


-----------------------------------------------------------------------------
(* the background scheduler of init(): the jobs it was given, next to a caller
   that stages values with write_tag(path, v, immediate=False) *)

\* gateway/__init__.py 161-169: the one add_job call of the scheduler
ScheduledJobs == {"read_all_tags"}

\* the tag manager's method a job runs when its interval trigger fires; with
\* max_instances = 1 a job is not started again while it is running
Sched_Fire(job) ==
    CASE job = "read_all_tags" -> \E t \in Sweepers : RAT_Start(t)
      [] job = "write_pending_tags" -> WPT_Collect("f2")
      [] OTHER -> FALSE

\* the scheduler's trigger for any of its jobs
Sched_Tick == \E job \in ScheduledJobs : Sched_Fire(job)

\* a read over the connected session
Sched_Read == \E t \in Sweepers : RAT_GroupOut(t, "ok")

Sched_Return == \E t \in Sweepers : RAT_Return(t)

\* write_tag(path, v, immediate=False) from a thread of the application
Sched_Stage == \E p \in Paths : \E v \in StageValues(p) : Stage("f1", p, v)

SchedNext ==
    \/ Sched_Tick
    \/ Sched_Read
    \/ Sched_Return
    \/ Sched_Stage

\* the scheduler keeps firing its jobs and the jobs run to their end
SpecSched ==
    /\ InitFlush("conc")
    /\ [][SchedNext]_vars
    /\ WF_vars(Sched_Tick)
    /\ WF_vars(Sched_Read)
    /\ WF_vars(Sched_Return)

\* C31: a value staged with write_tag(path, v, immediate=False) is eventually
\* taken out of the tag's pending slot and submitted to the PLC by a scheduled
\* job, without any API call, while the session is connected
C31_StagedValueIsEventuallyFlushed ==
    \A p \in Paths : (~IsNone(pending[p])) ~> IsNone(pending[p])


-----------------------------------------------------------------------------
(* write_pending_tags over two int tags of one data block whose byte ranges
   overlap: b0 at bytes 0-1 and n1 at bytes 1-2 share byte 1 *)

OverlapDecl ==
    [p \in Paths |->
        CASE p = "b0" -> [db |-> 1, off |-> 0, size |-> 2, type |-> "int", bit |-> 0]
          [] p = "n1" -> [db |-> 1, off |-> 1, size |-> 2, type |-> "int", bit |-> 0]
          [] p = "b1" -> [db |-> 2, off |-> 0, size |-> 1, type |-> "bool", bit |-> 1]
          [] p = "c0" -> [db |-> 2, off |-> 0, size |-> 1, type |-> "bool", bit |-> 0]]

\* the rows of config_plc_tags come in table order (SELECT * without ORDER BY) and
\* create_tag registers them in that order
OverlapOrders == {<<"b0", "n1", "b1", "c0">>, <<"n1", "b0", "b1", "c0">>}

InitOverlap ==
    \E ts \in OverlapOrders :
       InitRegistry("seq", ts, OverlapDecl,
                    [db \in DBs |-> [o \in 0..(DBLen(db) - 1) |-> 0]],
                    SessIdle, [stage |-> MaxStage, flush |-> MaxFlush, imm |-> 0])

OverlapNext ==
    \/ \E p \in Paths : \E v \in StageValues(p) : Stage("f1", p, v)
    \/ WPT_Collect("f1")
    \/ WPT_Read("f1")
    \/ WPT_Get("f1")
    \/ WPT_Clear("f1")
    \/ WPT_Write("f1")
    \/ WPT_Return("f1")

SpecOverlap == InitOverlap /\ [][OverlapNext]_vars

\* the byte an int tag's encoder puts at absolute offset o of its data block
IntByteAt(p, v, o) ==
    LET u == v[2] % 65536
    IN  IF o = decl[p].off THEN u \div 256 ELSE u % 256

\* C32: when one flush has patched both overlapping tags and written the block,
\* the shared byte holds what the encoder of the tag with the higher start_offset
\* (n1) produced
C32_HigherOffsetWinsSharedBytes ==
    \A t \in Threads :
      (lastIO[t].kind = "flush" /\ {"b0", "n1"} \subseteq lastIO[t].patched) =>
         lastIO[t].data[1 - lastIO[t].start] = IntByteAt("n1", lastWritten["n1"], 1)


-----------------------------------------------------------------------------
(* PLCClient.wait_for_connection(timeout) called on the sync session while its
   monitor_task connects and the PLC comes and goes *)

\* the timeout arguments tried, in seconds
WaitTimeouts == {0, 1, 2}

\* the sleeps counted before the count stops growing
MaxSleeps == 3

\* line 282: `if timeout and (time.time() - start_time) > timeout`: after n sleeps
\* of one second a little more than n seconds have passed
timed_out(timeout, sleeps) == timeout # 0 /\ sleeps >= timeout

\* line 279: start_time = time.time()
Wait_Call(t, timeout) ==
    /\ sess.io[t] = "idle"
    /\ sess' = [sess EXCEPT !.io[t] = "wfc",
                            !.wfc = [timeout |-> timeout, sleeps |-> 0, ret |-> "none"]]
    /\ SessFrame /\ UNCHANGED budget

\* lines 280-289: one pass of the loop: the timeout test, then the readiness test,
\* then time.sleep(1)
Wait_Iter(t) ==
    /\ sess.io[t] = "wfc"
    /\ sess' = IF timed_out(sess.wfc.timeout, sess.wfc.sleeps)
               THEN [sess EXCEPT !.io[t] = "idle", !.wfc.ret = "False"]
               ELSE IF Ready(SessOf(t))
               THEN [sess EXCEPT !.io[t] = "idle", !.wfc.ret = "True"]
               ELSE [sess EXCEPT !.wfc.sleeps = IF @ < MaxSleeps THEN @ + 1 ELSE @]
    /\ SessFrame /\ UNCHANGED budget

InitWait ==
    InitSweepWith([SessIdle EXCEPT !.sup["sync"] = "c_acq"])

WaitNext ==
    \/ Supervise("sync")
    \/ \E timeout \in WaitTimeouts : Wait_Call("w", timeout)
    \/ Wait_Iter("w")
    \/ SessEnv

\* the caller's loop keeps running and so does the session's monitor thread
SpecWait ==
    /\ InitWait
    /\ [][WaitNext]_vars
    /\ WF_vars(Wait_Iter("w"))
    /\ WF_vars(Supervise("sync"))

\* C33: every wait_for_connection call returns, whatever its timeout argument
C33_WaitTerminates ==
    (sess.io["w"] = "wfc") ~> (sess.io["w"] = "idle")


-----------------------------------------------------------------------------
(* two POST /api/plc/write requests served at the same time by two threads of
   the API server, each naming one tag of data block 1 *)

\* the JSON body of the request each thread serves
RequestOf(t) == IF t = "f1" THEN {"b0"} ELSE {"b1"}

TwoWritesNext ==
    \/ \E t \in Flushers : Api_Write(t, RequestOf(t))
    \/ \E t \in Flushers : Api_Flush(t)
    \/ \E t \in Flushers : WPT_Read(t)
    \/ \E t \in Flushers : WPT_Get(t)
    \/ \E t \in Flushers : WPT_Clear(t)
    \/ \E t \in Flushers : WPT_Write(t)
    \/ \E t \in Flushers : WPT_Return(t)

SpecTwoWrites == InitFlush("conc") /\ [][TwoWritesNext]_vars

\* C34: when write_pending_tags returns to internal_write_tags, its results hold
\* True or False for every tag the request named
C34_EveryNamedTagHasAResult ==
    \A t \in Flushers :
      pc[t] = "done" => \A p \in RequestOf(t) : fl[t].results[p] \in {"True", "False"}


-----------------------------------------------------------------------------
(* write_pending_tags called again and again over the overlapping registry: a
   flush that failed is followed by later calls *)

\* the next request to /api/plc/write or /api/plc/batch arrives and
\* internal_write_tags calls write_pending_tags once more
NextCall ==
    /\ budget.flush = 0
    /\ RequestsIdle
    /\ budget' = [budget EXCEPT !.flush = 1]
    /\ UNCHANGED <<tags, decl, plc, value, pending, monValue, queue, pc, fl, wi,
                   lastWritten, late, lastIO, sw, mon, st, sess, api, mode>>

\* the steps of one write_pending_tags call
FlushSteps ==
    \/ WPT_Collect("f1")
    \/ WPT_Read("f1")
    \/ WPT_Get("f1")
    \/ WPT_Clear("f1")
    \/ WPT_Write("f1")
    \/ WPT_Return("f1")

RetryNext ==
    \/ OverlapNext
    \/ NextCall

\* calls keep coming and every call runs to its end
SpecRetry ==
    /\ InitOverlap
    /\ [][RetryNext]_vars
    /\ WF_vars(NextCall)
    /\ WF_vars(FlushSteps)

\* a value that can be encoded is waiting in the tag's pending slot
ValidPending(p) == ~IsNone(pending[p]) /\ Encodable(OverlapDecl[p], pending[p])

\* C36: if the reads of a tag's data block keep succeeding in the flushes that
\* follow, a pending value that can be encoded does not wait for ever: a flush
\* takes it, whatever the other tags of the block hold
C36_FlushFailureIsTransient ==
    \A p \in Paths :
      ([]<>(pc["f1"] = "get" /\ fl["f1"].db = OverlapDecl[p].db))
        => (ValidPending(p) ~> ~ValidPending(p))


-----------------------------------------------------------------------------
(* heart_task of the sync session next to the session's monitor_task: what a
   tick does when the session is not connected *)

\* heart_task lines 238-241, on the thread __init__ starts after connect() and
\* start_monitor(): the sleep is over; when the session is not ready a warning is
\* logged ("warned"), and in either case writeDB_NegateBit is called
HB_Tick ==
    /\ sess.hb.pc = "sleep"
    /\ sess.mon["sync"]
    /\ budget.beat > 0
    /\ budget' = [budget EXCEPT !.beat = @ - 1]
    /\ sess' = [sess EXCEPT !.hb =
                  [pc |-> "wfc", bit |-> None, rd |-> "none", wr |-> <<>>,
                   ret |-> IF Ready("sync") THEN "none" ELSE "warned"]]
    /\ HeartFrame /\ UNCHANGED plc

\* writeDB_NegateBit line 357: wait_for_connection finds the session ready, at
\* once or after some of its one-second sleeps
HB_WaitReady ==
    /\ sess.hb.pc = "wfc"
    /\ Ready("sync")
    /\ sess' = [sess EXCEPT !.hb.pc = "read"]
    /\ HeartFrame /\ UNCHANGED <<plc, budget>>

\* lines 357-359: wait_for_connection timed out, return False
HB_WaitTimeout ==
    /\ sess.hb.pc = "wfc"
    /\ ~Ready("sync")
    /\ sess' = [sess EXCEPT !.hb.pc = "sleep", !.hb.ret = "False"]
    /\ HeartFrame /\ UNCHANGED <<plc, budget>>

InitBeat ==
    InitRegistry("conc", FlushTags, FlushDecl,
                 [db \in DBs |-> [o \in 0..(DBLen(db) - 1) |-> 0]],
                 [SessIdle EXCEPT !.hb.pc = "sleep", !.sup["sync"] = "c_acq"],
                 [stage |-> 0, flush |-> 0, imm |-> 0, beat |-> MaxBeat, env |-> MaxEnv])

BeatNext ==
    \/ Supervise("sync")
    \/ SessEnv
    \/ HB_Tick
    \/ HB_WaitReady
    \/ HB_WaitTimeout
    \/ HB_Read
    \/ HB_Write

SpecBeat == InitBeat /\ [][BeatNext]_vars

\* C38: a tick that found the session not connected (and logged that it skips the
\* heartbeat) issues no read and no write: it does not get past its sleep
C38_HeartbeatSkipsWhenDown ==
    sess.hb.ret = "warned" => sess.hb.pc \notin {"read", "write"}


-----------------------------------------------------------------------------
(* the order in which the threads take the locks: each operation as the sequence
   of lock acquisitions and releases its code makes; "acq" is a blocking
   `with lock:`, "try" an acquire(timeout=...) whose failure makes the operation
   return *)

\* a setter that would take the monitor's lock before the tag's
monitor_first_set ==
    << <<"acq", "monitor">>, <<"acq", "tag">>, <<"rel", "tag">>, <<"rel", "monitor">> >>

\* DBPLCTag.value setter: with self._value_lock: ... self.monitor.value = v, whose
\* setter runs with self._lock and puts the events
tag_value_set ==
    << <<"acq", "tag">>, <<"acq", "monitor">>, <<"rel", "monitor">>, <<"rel", "tag">> >>

\* get_tag: with self._lock: return self.tags.get(tagpath)
get_tag == << <<"acq", "registry">>, <<"rel", "registry">> >>

\* a tag method that only takes the tag's _value_lock (set_pending_write_value,
\* has_pending_write, get_pending_write_value, clear_pending_write_value)
tag_method == << <<"acq", "tag">>, <<"rel", "tag">> >>

\* a readDB_* / writeDB_* / check_connection on a session: acquire with timeout,
\* try ... finally release
session_op(l) == << <<"try", l>>, <<"rel", l>> >>

\* the lock program of each thread, repeated for ever
LockProgram(t) ==
    CASE t = "r" ->      \* read_all_tags: readDB_Byte, then tag.value = value
           session_op("client_async") \o tag_value_set
      [] t = "w" ->      \* write_tag(immediate=True): get_tag, writeDB_*, tag.value = value
           get_tag \o session_op("client_sync") \o tag_value_set
      [] t = "f1" ->     \* internal_write_tags: write_tag(immediate=False), write_pending_tags
           get_tag \o tag_method \o tag_method \o session_op("client_async")
             \o tag_method \o tag_method \o session_op("client_async")
      [] t = "m_sync" -> \* monitor_task: check_connection, reconnect = disconnect + connect
           session_op("client_sync") \o session_op("connect") \o session_op("connect")
      [] OTHER ->        \* create_tag: with self._lock: DBPLCTag(...) -> start_consumer()
           << <<"acq", "registry">>, <<"acq", "monitor">>, <<"rel", "monitor">>,
              <<"rel", "registry">> >>

\* the step thread t is at
LkStep(t) == LockProgram(t)[sess.lk.at[t]]

\* the position after position i
LkAfter(t, i) == IF i >= Len(LockProgram(t)) THEN 1 ELSE i + 1

\* the release that belongs to the acquire at position i
LkMatch(t, i) ==
    MinOf({j \in (i + 1)..Len(LockProgram(t)) :
             LockProgram(t)[j] = <<"rel", LockProgram(t)[i][2]>>})

\* the locks thread t holds
LkHeld(t) == {l \in Locks : sess.lk.holder[l] = t}

LkFrame == SessFrame /\ UNCHANGED budget

\* a lock is taken: a `with` statement gets through, or acquire(timeout) succeeds
Lk_Acquire(t) ==
    /\ LkStep(t)[1] \in {"acq", "try"}
    /\ sess.lk.holder[LkStep(t)[2]] = "none"
    /\ sess' = [sess EXCEPT !.lk.holder[LkStep(t)[2]] = t,
                            !.lk.at[t] = LkAfter(t, @)]
    /\ LkFrame

\* acquire(timeout=...) gives up on a lock another thread holds: the operation
\* returns without entering its try block
Lk_Timeout(t) ==
    /\ LkStep(t)[1] = "try"
    /\ sess.lk.holder[LkStep(t)[2]] \notin {"none", t}
    /\ sess' = [sess EXCEPT !.lk.at[t] = LkAfter(t, LkMatch(t, @))]
    /\ LkFrame

\* the end of a `with` block, or finally: release()
Lk_Release(t) ==
    /\ LkStep(t)[1] = "rel"
    /\ sess' = [sess EXCEPT !.lk.holder[LkStep(t)[2]] = "none",
                            !.lk.at[t] = LkAfter(t, @)]
    /\ LkFrame

LockNext ==
    \/ \E t \in LockThreads : Lk_Acquire(t)
    \/ \E t \in LockThreads : Lk_Timeout(t)
    \/ \E t \in LockThreads : Lk_Release(t)

SpecLocks == InitSweep /\ [][LockNext]_vars

\* thread t is blocked in a `with` statement on a lock that thread u holds
WaitsFor(t, u) ==
    /\ LkStep(t)[1] = "acq"
    /\ u # t
    /\ sess.lk.holder[LkStep(t)[2]] = u

\* rank of the locks of the registry, the tag and the monitor
LockRank(l) == CASE l = "registry" -> 1 [] l = "tag" -> 2 [] l = "monitor" -> 3 [] OTHER -> 0

SessionLocks == {"client_sync", "client_async", "connect"}

\* lock l may be taken by a thread that holds the locks in held
OrderKept(l, held) ==
    CASE l \in {"registry", "tag", "monitor"} ->
           /\ held \cap SessionLocks = {}
           /\ \A h \in held : LockRank(h) < LockRank(l)
      [] l = "connect" -> held \cap {"client_sync", "client_async"} = {}
      [] OTHER -> TRUE

\* C40: every lock is taken in the order registry, tag, monitor, none of these
\* three is taken under a session's client_lock or the connect_lock, the
\* connect_lock is not taken under a client_lock; and no set of threads is blocked
\* with each of them waiting for a lock that another thread of the set holds
C40_LockOrderAndNoDeadlock ==
    /\ [](~\E S \in SUBSET LockThreads :
             /\ S # {}
             /\ \A t \in S : \E u \in S : WaitsFor(t, u))
    /\ [][\A t \in LockThreads : \A l \in Locks :
            (sess'.lk.holder[l] = t /\ sess.lk.holder[l] # t) => OrderKept(l, LkHeld(t))]_vars

\* reached: the sweep is inside the monitor's setter holding the tag's lock and the
\* monitor's, create_tag holds the registry lock and waits for the monitor's lock,
\* the writer waits for the registry lock, and monitor_task holds the connect_lock
C40_Witness ==
    /\ sess.lk.holder["tag"] = "r"
    /\ sess.lk.holder["monitor"] = "r"
    /\ WaitsFor("reg", "r")
    /\ WaitsFor("w", "reg")
    /\ sess.lk.holder["connect"] = "m_sync"

====
